---- MODULE Spec2Model ----
(***************************************************************************)
(* The toolset registry of buildkite-mcp-server (pkg/toolsets): toolsets   *)
(* of tool definitions registered under string keys, and the queries that  *)
(* resolve, aggregate and search them; the search_tools handler built on   *)
(* it; the tool list and the startup validation of the server and its      *)
(* commands; and the HTTP middleware (bearer-token authentication and the  *)
(* middleware chain).                                                      *)
(*                                                                         *)
(* Go strings are modelled as sequences of bytes (ASCII codes), so that    *)
(* ordering (bytewise, as Go's < and strings.Compare), case folding        *)
(* (strings.ToLower) and substring search (strings.Contains) are computed  *)
(* rather than assumed.  A Go map has no iteration order: every operator   *)
(* that ranges over a map takes an `order`, a sequence that lists the      *)
(* map's keys without repetition, and visits the keys in that order; the   *)
(* actions draw the order nondeterministically.                            *)
(***************************************************************************)
EXTENDS Integers, Sequences, FiniteSets, TLC

VARIABLES
    toolsets,   \* ToolsetRegistry.toolsets: map from key to Toolset
    call        \* the last call made on the registry, with its arguments and result

vars == <<toolsets, call>>

----------------------------------------------------------------------------
(* Bounds of the model *)

\* the registry holds at most this many tool definitions in total
MaxTotalTools == 2
\* enabled-toolset lists have at most this many entries
MaxNames == 2
\* search limits range over -1 .. MaxLimit
MaxLimit == 3

----------------------------------------------------------------------------
(* Byte strings *)

\* "all": the special name that enables all toolsets
ToolsetAll == <<97, 108, 108>>

\* strings.ToLower on ASCII: 'A'..'Z' are mapped to 'a'..'z'
ToLower(s) ==
    [i \in 1..Len(s) |-> IF s[i] >= 65 /\ s[i] <= 90 THEN s[i] + 32 ELSE s[i]]

\* variant: the empty string occurs in no string
MutContains(s, substr) ==
    /\ substr # <<>>
    /\ \E i \in 0..(Len(s) - Len(substr)) : SubSeq(s, i + 1, i + Len(substr)) = substr

\* strings.Contains: substr occurs in s (the empty string occurs in every string)
Contains(s, substr) ==
    \E i \in 0..(Len(s) - Len(substr)) : SubSeq(s, i + 1, i + Len(substr)) = substr

\* strings.Compare: bytewise lexicographic order, -1, 0 or +1
RECURSIVE Compare(_, _)
Compare(a, b) ==
    IF a = <<>> /\ b = <<>> THEN 0
    ELSE IF a = <<>> THEN -1
    ELSE IF b = <<>> THEN 1
    ELSE IF Head(a) < Head(b) THEN -1
    ELSE IF Head(a) > Head(b) THEN 1
    ELSE Compare(Tail(a), Tail(b))

\* slices.Contains
SliceContains(s, v) == \E i \in 1..Len(s) : s[i] = v

\* the permutations of a finite set, as sequences (an enumerated set)
Perms(S) ==
    {q : q \in {p \in [1..Cardinality(S) -> S] :
                    \A i, j \in 1..Cardinality(S) : p[i] = p[j] => i = j}}

\* the sequences over S of length at most n
SeqUpTo(S, n) == UNION {[1..k -> S] : k \in 0..n}

\* the order in which a range loop visits a map with the given keys
MapRange(keys, order) == SelectSeq(order, LAMBDA k : k \in keys)

----------------------------------------------------------------------------
(* Sorting: slices.Sort and slices.SortFunc sort a slice of at most 12     *)
(* elements by insertion sort, and no slice of the model is longer;        *)
(* keys[i] is the sort key of data[i].                                     *)

SwapAt(idx, i, j) == [idx EXCEPT ![i] = idx[j], ![j] = idx[i]]

\* for j := i; j > a && cmp(data[j], data[j-1]) < 0; j-- { swap(j, j-1) }
RECURSIVE SinkLeft(_, _, _)
SinkLeft(idx, keys, j) ==
    IF j > 1 /\ Compare(keys[idx[j]], keys[idx[j - 1]]) < 0
    THEN SinkLeft(SwapAt(idx, j, j - 1), keys, j - 1)
    ELSE idx

\* for i := a + 1; i < b; i++ { ... }
RECURSIVE InsertionLoop(_, _, _)
InsertionLoop(idx, keys, i) ==
    IF i > Len(idx) THEN idx
    ELSE InsertionLoop(SinkLeft(idx, keys, i), keys, i + 1)

SortByKey(data, keys) ==
    LET idx == InsertionLoop([i \in 1..Len(data) |-> i], keys, 2)
    IN  [i \in 1..Len(data) |-> data[idx[i]]]

\* slices.Sort on a slice of strings
SortStrings(s) == SortByKey(s, s)

----------------------------------------------------------------------------
(* ToolDefinition and Toolset *)

\* ToolDefinition.IsReadOnly: a nil hint is not read-only
IsReadOnly(td) ==
    IF td.Tool.ReadOnlyHint = "nil" THEN FALSE
    ELSE td.Tool.ReadOnlyHint = "true"

\* variant: the read-only filter is dropped
MutGetReadOnlyTools(ts) == ts.Tools

\* Toolset.GetReadOnlyTools
GetReadOnlyTools(ts) == SelectSeq(ts.Tools, IsReadOnly)

\* Toolset.GetAllTools
ToolsetGetAllTools(ts) == ts.Tools

\* the tools a query takes from one toolset
ToolsOf(ts, readOnlyMode) ==
    IF readOnlyMode THEN GetReadOnlyTools(ts) ELSE ToolsetGetAllTools(ts)

----------------------------------------------------------------------------
(* ToolsetRegistry *)

\* NewToolsetRegistry: an empty map
NewToolsetRegistry == [k \in {} |-> {}]

\* variant: the assignment replaces the whole map by the one entry
MutRegister(tr, name, toolset) == [k \in {name} |-> toolset]

\* ToolsetRegistry.Register: tr.toolsets[name] = toolset
Register(tr, name, toolset) ==
    [k \in (DOMAIN tr) \cup {name} |-> IF k = name THEN toolset ELSE tr[k]]

\* ToolsetRegistry.RegisterToolsets: Register for every entry, in map order
RECURSIVE RegisterEach(_, _, _)
RegisterEach(tr, m, names) ==
    IF names = <<>> THEN tr
    ELSE RegisterEach(Register(tr, Head(names), m[Head(names)]), m, Tail(names))

RegisterToolsets(tr, m, order) == RegisterEach(tr, m, MapRange(DOMAIN m, order))

\* the zero value of Toolset
ZeroToolset == [Name |-> <<>>, Description |-> <<>>, Tools |-> <<>>]

\* ToolsetRegistry.Get: the comma-ok lookup tr.toolsets[name]
Get(tr, name) ==
    IF name \in DOMAIN tr THEN [toolset |-> tr[name], exists |-> TRUE]
    ELSE [toolset |-> ZeroToolset, exists |-> FALSE]

\* ToolsetRegistry.GetToolsForToolsets: the tools of the named toolsets that exist
RECURSIVE GetToolsForToolsets(_, _, _)
GetToolsForToolsets(tr, toolsetNames, readOnlyMode) ==
    IF toolsetNames = <<>> THEN <<>>
    ELSE (IF Get(tr, Head(toolsetNames)).exists
          THEN (IF readOnlyMode THEN GetReadOnlyTools(tr[Head(toolsetNames)])
                ELSE ToolsetGetAllTools(tr[Head(toolsetNames)]))
          ELSE <<>>)
         \o GetToolsForToolsets(tr, Tail(toolsetNames), readOnlyMode)

\* ToolsetRegistry.GetAllTools: the tools of every toolset, in map order
RECURSIVE AppendAllTools(_, _)
AppendAllTools(tr, names) ==
    IF names = <<>> THEN <<>>
    ELSE tr[Head(names)].Tools \o AppendAllTools(tr, Tail(names))

GetAllTools(tr, order) == AppendAllTools(tr, MapRange(DOMAIN tr, order))

\* variant: the keys are returned in map order, unsorted
MutList(tr, order) == MapRange(DOMAIN tr, order)

\* ToolsetRegistry.List: the keys in map order, then slices.Sort
List(tr, order) == SortStrings(MapRange(DOMAIN tr, order))

\* variant: an unknown name ends the loop instead of being skipped
RECURSIVE MutCollectTools(_, _, _)
MutCollectTools(tr, names, readOnlyMode) ==
    IF names = <<>> \/ Head(names) \notin DOMAIN tr THEN <<>>
    ELSE ToolsOf(tr[Head(names)], readOnlyMode)
         \o MutCollectTools(tr, Tail(names), readOnlyMode)

\* variant: a name that is given again adds nothing
RECURSIVE MutCollectOnce(_, _, _)
MutCollectOnce(tr, names, readOnlyMode) ==
    IF names = <<>> THEN <<>>
    ELSE (IF Head(names) \in DOMAIN tr
          THEN ToolsOf(tr[Head(names)], readOnlyMode)
          ELSE <<>>)
         \o MutCollectOnce(tr, SelectSeq(Tail(names), LAMBDA n : n # Head(names)),
                           readOnlyMode)

\* the loop of GetEnabledTools over the (possibly replaced) name list
RECURSIVE CollectTools(_, _, _)
CollectTools(tr, names, readOnlyMode) ==
    IF names = <<>> THEN <<>>
    ELSE (IF Head(names) \in DOMAIN tr
          THEN ToolsOf(tr[Head(names)], readOnlyMode)
          ELSE <<>>)
         \o CollectTools(tr, Tail(names), readOnlyMode)

\* variant: "all" is honoured only as the first entry
MutEnabledNames(tr, order, enabledToolsets) ==
    IF enabledToolsets # <<>> /\ Head(enabledToolsets) = ToolsetAll THEN List(tr, order)
    ELSE enabledToolsets

\* the name list after the "all" check
EnabledNames(tr, order, enabledToolsets) ==
    IF SliceContains(enabledToolsets, ToolsetAll) THEN List(tr, order)
    ELSE enabledToolsets

\* ToolsetRegistry.GetEnabledTools
GetEnabledTools(tr, order, enabledToolsets, readOnlyMode) ==
    CollectTools(tr, EnabledNames(tr, order, enabledToolsets), readOnlyMode)

\* the scopes of a slice of tools, as the keys added to scopeMap
ToolScopes(tools) ==
    UNION {{tools[i].RequiredScopes[j] : j \in 1..Len(tools[i].RequiredScopes)} :
             i \in 1..Len(tools)}

\* the loop of GetRequiredScopes over the (possibly replaced) name list
RECURSIVE CollectScopes(_, _, _, _)
CollectScopes(tr, names, readOnlyMode, scopeMap) ==
    IF names = <<>> THEN scopeMap
    ELSE LET tools == IF Head(names) \in DOMAIN tr
                      THEN ToolsOf(tr[Head(names)], readOnlyMode)
                      ELSE <<>>
         IN  CollectScopes(tr, Tail(names), readOnlyMode, scopeMap \cup ToolScopes(tools))

\* variant: the scopes are returned in map order, unsorted
MutGetRequiredScopes(tr, order, scopeOrder, enabledToolsets, readOnlyMode) ==
    MapRange(CollectScopes(tr, EnabledNames(tr, order, enabledToolsets), readOnlyMode, {}),
             scopeOrder)

\* ToolsetRegistry.GetRequiredScopes: the keys of scopeMap in map order, then slices.Sort
GetRequiredScopes(tr, order, scopeOrder, enabledToolsets, readOnlyMode) ==
    SortStrings(
        MapRange(CollectScopes(tr, EnabledNames(tr, order, enabledToolsets), readOnlyMode, {}),
                 scopeOrder))

\* variant: an entry is named by the toolset's display name, not by its key
MutGetMetadata(tr, order) ==
    LET names == MapRange(DOMAIN tr, order)
        metadata == [i \in 1..Len(names) |->
                        [Name |-> tr[names[i]].Name,
                         Description |-> tr[names[i]].Description,
                         ToolCount |-> Len(tr[names[i]].Tools),
                         ReadOnlyCount |-> Len(GetReadOnlyTools(tr[names[i]]))]]
    IN  SortByKey(metadata, [i \in 1..Len(metadata) |-> metadata[i].Name])

\* ToolsetRegistry.GetMetadata: one entry per map entry, then slices.SortFunc by Name
GetMetadata(tr, order) ==
    LET names == MapRange(DOMAIN tr, order)
        metadata == [i \in 1..Len(names) |->
                        [Name |-> names[i],
                         Description |-> tr[names[i]].Description,
                         ToolCount |-> Len(tr[names[i]].Tools),
                         ReadOnlyCount |-> Len(GetReadOnlyTools(tr[names[i]]))]]
    IN  SortByKey(metadata, [i \in 1..Len(metadata) |-> metadata[i].Name])

----------------------------------------------------------------------------
(* Search *)

\* variant: the two single classifications are swapped
MutMatchedIn(nameMatch, descMatch) ==
    IF nameMatch /\ descMatch THEN "both"
    ELSE IF nameMatch THEN "description"
    ELSE "name"

\* the classification of a match
MatchedIn(nameMatch, descMatch) ==
    IF nameMatch /\ descMatch THEN "both"
    ELSE IF nameMatch THEN "name"
    ELSE "description"

\* the SearchResult appended for a matching tool
SearchResult(toolDef, toolsetName, nameMatch, descMatch) ==
    [Tool |-> toolDef.Tool,
     ToolsetName |-> toolsetName,
     MatchedIn |-> MatchedIn(nameMatch, descMatch),
     RequiredScopes |-> toolDef.RequiredScopes,
     RequiredScopesNil |-> toolDef.RequiredScopesNil,
     ReadOnly |-> IsReadOnly(toolDef)]

\* variant: the inner break tests len(results) > limit
RECURSIVE MutScanTools(_, _, _, _, _, _)
MutScanTools(tools, i, toolsetName, queryLower, limit, results) ==
    IF i > Len(tools) THEN results
    ELSE LET nameMatch == Contains(ToLower(tools[i].Tool.Name), queryLower)
             descMatch == Contains(ToLower(tools[i].Tool.Description), queryLower)
             appended == Append(results,
                                SearchResult(tools[i], toolsetName, nameMatch, descMatch))
         IN  IF nameMatch \/ descMatch
             THEN IF Len(appended) > limit THEN appended
                  ELSE MutScanTools(tools, i + 1, toolsetName, queryLower, limit, appended)
             ELSE MutScanTools(tools, i + 1, toolsetName, queryLower, limit, results)

\* the inner loop over toolset.Tools, from tool i on, with its break
RECURSIVE ScanTools(_, _, _, _, _, _)
ScanTools(tools, i, toolsetName, queryLower, limit, results) ==
    IF i > Len(tools) THEN results
    ELSE LET nameMatch == Contains(ToLower(tools[i].Tool.Name), queryLower)
             descMatch == Contains(ToLower(tools[i].Tool.Description), queryLower)
             appended == Append(results,
                                SearchResult(tools[i], toolsetName, nameMatch, descMatch))
         IN  IF nameMatch \/ descMatch
             THEN IF Len(appended) >= limit THEN appended
                  ELSE ScanTools(tools, i + 1, toolsetName, queryLower, limit, appended)
             ELSE ScanTools(tools, i + 1, toolsetName, queryLower, limit, results)

\* variant: the outer break needs a result to have been found
RECURSIVE MutScanToolsets(_, _, _, _, _, _)
MutScanToolsets(tr, toolsetNames, k, queryLower, limit, results) ==
    IF k > Len(toolsetNames) THEN results
    ELSE LET after == ScanTools(tr[toolsetNames[k]].Tools, 1, toolsetNames[k],
                                queryLower, limit, results)
         IN  IF Len(after) >= limit /\ Len(after) > 0 THEN after
             ELSE MutScanToolsets(tr, toolsetNames, k + 1, queryLower, limit, after)

\* the outer loop over toolsetNames, from name k on, with its break
RECURSIVE ScanToolsets(_, _, _, _, _, _)
ScanToolsets(tr, toolsetNames, k, queryLower, limit, results) ==
    IF k > Len(toolsetNames) THEN results
    ELSE LET after == ScanTools(tr[toolsetNames[k]].Tools, 1, toolsetNames[k],
                                queryLower, limit, results)
         IN  IF Len(after) >= limit THEN after
             ELSE ScanToolsets(tr, toolsetNames, k + 1, queryLower, limit, after)

\* variant: the toolsets are scanned in map order, unsorted
MutSortedKeys(tr, order) == MapRange(DOMAIN tr, order)

\* slices.Sorted(maps.Keys(tr.toolsets))
SortedKeys(tr, order) == SortStrings(MapRange(DOMAIN tr, order))

\* slices.SortFunc(results, by Tool.Name)
SortResults(results) ==
    SortByKey(results, [i \in 1..Len(results) |-> results[i].Tool.Name])

\* variant: every match is collected and sorted, and the limit is applied afterwards
MutSearchToolsWithMetadata(tr, order, query, limit) ==
    LET all == SortResults(ScanToolsets(tr, SortedKeys(tr, order), 1, ToLower(query),
                                        MaxTotalTools + 1, <<>>))
    IN  IF limit > 0 /\ Len(all) > limit THEN SubSeq(all, 1, limit)
        ELSE SortResults(ScanToolsets(tr, SortedKeys(tr, order), 1, ToLower(query),
                                      limit, <<>>))

\* ToolsetRegistry.SearchToolsWithMetadata
SearchToolsWithMetadata(tr, order, query, limit) ==
    SortResults(ScanToolsets(tr, SortedKeys(tr, order), 1, ToLower(query), limit, <<>>))

----------------------------------------------------------------------------
(* The input pools *)

\* the keys toolsets are registered under: "B" and "a" (as among the builtin
\* toolsets, none is registered under "all")
KeyPool == {<<66>>, <<97>>}

\* the names a query may pass: the keys, "all", and "z", which is never registered
NamePool == KeyPool \cup {ToolsetAll, <<122>>}

\* scopes: "r", "rw", "w"
ScopePool == {<<114>>, <<114, 119>>, <<119>>}

\* three tool definitions (the handler is opaque to the registry and left out):
\*   "ab": described "A", read-only, scopes [rw], deferred
\*   "Ba": described "ab", ReadOnlyHint false, scopes [w, r, w]
\*   "a" : described "b", no ReadOnlyHint, nil scopes, deferred
\* A slice is a sequence; RequiredScopesNil tells the nil slice from the empty
\* one, which differ only when the slice is encoded as JSON.
ToolPool ==
    { [Tool |-> [Name |-> <<97, 98>>, Description |-> <<65>>, ReadOnlyHint |-> "true"],
       RequiredScopes |-> << <<114, 119>> >>, RequiredScopesNil |-> FALSE,
       DeferLoading |-> TRUE],
      [Tool |-> [Name |-> <<66, 97>>, Description |-> <<97, 98>>, ReadOnlyHint |-> "false"],
       RequiredScopes |-> << <<119>>, <<114>>, <<119>> >>, RequiredScopesNil |-> FALSE,
       DeferLoading |-> FALSE],
      [Tool |-> [Name |-> <<97>>, Description |-> <<98>>, ReadOnlyHint |-> "nil"],
       RequiredScopes |-> <<>>, RequiredScopesNil |-> TRUE,
       DeferLoading |-> TRUE] }

\* a toolset of the given tools; its display name is "T" and its description
\* is the description of its first tool
MkToolset(tools) ==
    [Name |-> <<84>>,
     Description |-> IF tools = <<>> THEN <<>> ELSE tools[1].Tool.Description,
     Tools |-> tools]

ToolsetPool == {MkToolset(tools) : tools \in SeqUpTo(ToolPool, MaxTotalTools)}

RECURSIVE SumLen(_, _)
SumLen(tr, keys) ==
    IF keys = {} THEN 0
    ELSE LET k == CHOOSE x \in keys : TRUE
         IN  Len(tr[k].Tools) + SumLen(tr, keys \ {k})

TotalTools(tr) == SumLen(tr, DOMAIN tr)

\* the maps RegisterToolsets is called with
MappingPool ==
    {m : m \in {x \in UNION {[S -> ToolsetPool] : S \in SUBSET KeyPool} :
                    TotalTools(x) <= MaxTotalTools}}

NameLists == SeqUpTo(NamePool, MaxNames)

\* search queries: "", "a", "B", "ab" and "z"
QueryPool == {<<>>, <<97>>, <<66>>, <<97, 98>>, <<122>>}

LimitPool == (-1)..MaxLimit

\* the orders in which a range loop may visit a map with the given keys
MapOrders(keys) == Perms(keys)

\* GetEnabledTools and GetRequiredScopes range over the map only to expand "all"
ListOrders(tr, enabledToolsets) ==
    IF SliceContains(enabledToolsets, ToolsetAll) THEN MapOrders(DOMAIN tr)
    ELSE {<<>>}

----------------------------------------------------------------------------
(* The search_tools handler.  A JSON text is modelled by the value it      *)
(* encodes: null, an array of items, or an object of fields; strings are   *)
(* byte strings and booleans are booleans.                                 *)

\* the limit search_tools passes to SearchToolsWithMetadata
SearchLimit == 10

JsonNull == [kind |-> "null"]
JsonArray(items) == [kind |-> "array", items |-> items]
JsonObject(fields) == [kind |-> "object", fields |-> fields]

\* json.Marshal of a []string: null for the nil slice, else an array
MarshalStrings(slice) ==
    IF slice.isNil THEN JsonNull ELSE JsonArray(slice.elems)

\* variant: the scopes are encoded as they are
MutOutputScopes(result) ==
    [elems |-> result.RequiredScopes, isNil |-> result.RequiredScopesNil]

\* scopes := result.RequiredScopes; if scopes == nil { scopes = []string{} }
OutputScopes(result) ==
    IF result.RequiredScopesNil THEN [elems |-> <<>>, isNil |-> FALSE]
    ELSE [elems |-> result.RequiredScopes, isNil |-> FALSE]

\* the text returned when nothing matches:
\* {"results":[],"message":"No tools found. Try: 'build', ..., 'cluster'"}
NoToolsFound ==
    JsonObject([results |-> JsonArray(<<>>),
                message |-> <<78, 111, 32, 116, 111, 111, 108, 115, 32, 102,
                             111, 117, 110, 100, 46, 32, 84, 114, 121, 58,
                             32, 39, 98, 117, 105, 108, 100, 39, 44, 32,
                             39, 112, 105, 112, 101, 108, 105, 110, 101,
                             39, 44, 32, 39, 97, 114, 116, 105, 102, 97,
                             99, 116, 39, 44, 32, 39, 108, 111, 103, 39,
                             44, 32, 39, 116, 101, 115, 116, 39, 44, 32,
                             39, 99, 108, 117, 115, 116, 101, 114, 39>>])

\* json.Marshal(output): one object per search result; output is a nil slice
\* until the first append
MarshalOutput(results) ==
    IF Len(results) = 0 THEN JsonNull
    ELSE JsonArray([i \in 1..Len(results) |->
                       JsonObject([name |-> results[i].Tool.Name,
                                   description |-> results[i].Tool.Description,
                                   toolset |-> results[i].ToolsetName,
                                   read_only |-> results[i].ReadOnly,
                                   matched_in |-> results[i].MatchedIn,
                                   required_scopes |->
                                       MarshalStrings(OutputScopes(results[i]))])])

\* variant: the results are encoded even when there are none
MutToolSearchHandler(registry, order, query) ==
    [IsError |-> FALSE,
     Text |-> MarshalOutput(SearchToolsWithMetadata(registry, order, query, SearchLimit))]

\* the handler of ToolSearch(registry); encoding strings and booleans cannot fail
ToolSearchHandler(registry, order, query) ==
    LET results == SearchToolsWithMetadata(registry, order, query, SearchLimit)
    IN  IF Len(results) = 0 THEN [IsError |-> FALSE, Text |-> NoToolsFound]
        ELSE [IsError |-> FALSE, Text |-> MarshalOutput(results)]

----------------------------------------------------------------------------
(* The builtin toolsets, startup validation and the server's tool list *)

\* CreateBuiltinToolsets holds this many tools (about thirty in the source)
MaxBuiltinTools == 11

\* the i-th builtin tool: named "tk", "tj", ... downwards; every second one
\* described "Ab", the others "d"; every third one a write tool; scopes nil,
\* [r], [rw] or [w, r] in turn; every second one created by NewDeferredTool,
\* the others by NewTool
BuiltinTool(i) ==
    [Tool |-> [Name |-> <<116, 108 - i>>,
               Description |-> IF i % 2 = 0 THEN <<65, 98>> ELSE <<100>>,
               ReadOnlyHint |-> IF i % 3 = 0 THEN "false" ELSE "true"],
     RequiredScopes |-> CASE i % 4 = 0 -> <<>>
                          [] i % 4 = 1 -> << <<114>> >>
                          [] i % 4 = 2 -> << <<114, 119>> >>
                          [] i % 4 = 3 -> << <<119>>, <<114>> >>,
     RequiredScopesNil |-> (i % 4 = 0),
     DeferLoading |-> (i % 2 = 1)]

\* CreateBuiltinToolsets: two toolsets, "B" with the first half of the tools
\* and "a" with the rest
CreateBuiltinToolsets ==
    LET half == (MaxBuiltinTools + 1) \div 2
    IN  [k \in KeyPool |->
            IF k = <<66>>
            THEN MkToolset([i \in 1..half |-> BuiltinTool(i)])
            ELSE MkToolset([i \in 1..(MaxBuiltinTools - half) |-> BuiltinTool(half + i)])]

\* the toolset names of the source
\* "clusters"
ToolsetClusters == <<99, 108, 117, 115, 116, 101, 114, 115>>

\* "pipelines"
ToolsetPipelines == <<112, 105, 112, 101, 108, 105, 110, 101, 115>>

\* "builds"
ToolsetBuilds == <<98, 117, 105, 108, 100, 115>>

\* "artifacts"
ToolsetArtifacts == <<97, 114, 116, 105, 102, 97, 99, 116, 115>>

\* "logs"
ToolsetLogs == <<108, 111, 103, 115>>

\* "tests"
ToolsetTests == <<116, 101, 115, 116, 115>>

\* "annotations"
ToolsetAnnotations == <<97, 110, 110, 111, 116, 97, 116, 105, 111, 110, 115>>

\* "user"
ToolsetUser == <<117, 115, 101, 114>>

\* the names listed in ValidToolsets, in full
ValidToolsetNames ==
    << ToolsetAll, ToolsetClusters, ToolsetPipelines, ToolsetBuilds, ToolsetArtifacts,
       ToolsetLogs, ToolsetTests, ToolsetAnnotations, ToolsetUser >>

\* the keys of the map that CreateBuiltinToolsets returns, in full
BuiltinToolsetKeys ==
    { ToolsetClusters, ToolsetPipelines, ToolsetBuilds, ToolsetArtifacts, ToolsetTests,
      ToolsetLogs, ToolsetAnnotations, ToolsetUser }

\* variant: every name is valid
MutIsValidToolset(name) == TRUE

\* ValidToolsets: "all" and the builtin toolset names; the keys "B" and "a"
\* of CreateBuiltinToolsets stand for the eight names above
ValidToolsets == <<ToolsetAll, <<66>>, <<97>> >>

\* IsValidToolset
IsValidToolset(name) == SliceContains(ValidToolsets, name)

\* fmt's %v of a []string: the elements separated by spaces, in brackets
RECURSIVE JoinSpace(_)
JoinSpace(names) ==
    IF names = <<>> THEN <<>>
    ELSE IF Len(names) = 1 THEN names[1]
    ELSE names[1] \o <<32>> \o JoinSpace(Tail(names))

FormatStrings(names) == <<91>> \o JoinSpace(names) \o <<93>>

\* the nil error
NilError == [isNil |-> TRUE]

\* variant: only the first invalid name is reported
MutInvalidToolsets(names) ==
    LET invalid == SelectSeq(names, LAMBDA n : ~IsValidToolset(n))
    IN  IF invalid = <<>> THEN <<>> ELSE <<invalid[1]>>

\* the loop of ValidateToolsets: the invalid names, in the order given
InvalidToolsets(names) == SelectSeq(names, LAMBDA n : ~IsValidToolset(n))

\* ValidateToolsets: fmt.Errorf("invalid toolset names: %v", invalidToolsets)
ValidateToolsets(names) ==
    IF Len(InvalidToolsets(names)) > 0
    THEN [isNil |-> FALSE,
          msg |-> <<105, 110, 118, 97, 108, 105, 100, 32, 116, 111, 111,
                    108, 115, 101, 116, 32, 110, 97, 109, 101, 115, 58, 32>>
                  \o FormatStrings(InvalidToolsets(names))]
    ELSE NilError

\* the search_tools tool of ToolSearch: mcp.NewTool is given no read-only
\* annotation and no deferred loading (the description is cut to its first word)
SearchTool ==
    [Name |-> <<115, 101, 97, 114, 99, 104, 95, 116, 111, 111, 108, 115>>,
     Description |-> <<83, 101, 97, 114, 99, 104>>,
     ReadOnlyHint |-> "false",
     DeferLoading |-> FALSE]

\* the list_toolsets tool of ListToolsets, built like search_tools (the
\* description is cut to its first word); BuildkiteTools does not add it
ListToolsetsTool ==
    [Name |-> <<108, 105, 115, 116, 95, 116, 111, 111, 108, 115, 101, 116, 115>>,
     Description |-> <<76, 105, 115, 116>>,
     ReadOnlyHint |-> "false",
     DeferLoading |-> FALSE]

\* variant: the deferred-loading flag is set on every tool
MutExposedTool(toolDef, dynamicToolsets) ==
    [Name |-> toolDef.Tool.Name,
     Description |-> toolDef.Tool.Description,
     ReadOnlyHint |-> toolDef.Tool.ReadOnlyHint,
     DeferLoading |-> dynamicToolsets]

\* the body of the loop of BuildkiteTools: the tool of a definition, with
\* DeferLoading copied from the definition if dynamic, else false
ExposedTool(toolDef, dynamicToolsets) ==
    [Name |-> toolDef.Tool.Name,
     Description |-> toolDef.Tool.Description,
     ReadOnlyHint |-> toolDef.Tool.ReadOnlyHint,
     DeferLoading |-> IF dynamicToolsets THEN toolDef.DeferLoading ELSE FALSE]

\* BuildkiteTools, on the registry it has just populated: search_tools first
\* if dynamic, then the enabled tools
BuildkiteTools(registry, order, enabledToolsets, readOnly, dynamicToolsets) ==
    LET enabledTools == GetEnabledTools(registry, order, enabledToolsets, readOnly)
    IN  (IF dynamicToolsets THEN <<SearchTool>> ELSE <<>>)
        \o [i \in 1..Len(enabledTools) |-> ExposedTool(enabledTools[i], dynamicToolsets)]

\* variant: the loop writes the exposed flag into the stored definitions
MutStoredAfterLoop(registry, dynamicToolsets) ==
    [k \in DOMAIN registry |->
        [registry[k] EXCEPT !.Tools =
            [i \in 1..Len(registry[k].Tools) |->
                [registry[k].Tools[i] EXCEPT !.DeferLoading = dynamicToolsets /\ @]]]]

\* the registry after the loop of BuildkiteTools: toolDef and tool are
\* copies, so the stored definitions are as they were
StoredAfterLoop(registry, dynamicToolsets) == registry

\* variant: search_tools is given the enabled toolsets only, with the tools
\* GetEnabledTools would return
MutSearchRegistry(registry, enabledToolsets, readOnly) ==
    [k \in {n \in DOMAIN registry : \/ SliceContains(enabledToolsets, ToolsetAll)
                                    \/ SliceContains(enabledToolsets, n)} |->
        [registry[k] EXCEPT !.Tools = ToolsOf(registry[k], readOnly)]]

\* the registry BuildkiteTools hands to ToolSearch: the one it has populated
SearchRegistry(registry, enabledToolsets, readOnly) == registry

\* the names an operator may configure: the query names and "y", a second
\* name that is not valid
ConfigLists == SeqUpTo(NamePool \cup {<<121>>}, MaxNames)

\* the commands: tools (print the tool list), stdio and http (serve)
Commands == {"tools", "stdio", "http"}

\* Command.Run: set up the API clients (stdio, http), validate the enabled
\* toolsets, build the tool list, then print it (tools) or serve (stdio; http
\* once it listens).  The commands do not set DynamicToolsets.
Run(cmd, setupOk, listenOk, registry, order, enabledToolsets, readOnly) ==
    IF cmd # "tools" /\ ~setupOk
    THEN [err |-> [isNil |-> FALSE, msg |-> "setup"], built |-> FALSE, serving |-> FALSE]
    ELSE IF ~ValidateToolsets(enabledToolsets).isNil
    THEN [err |-> ValidateToolsets(enabledToolsets), built |-> FALSE, serving |-> FALSE]
    ELSE LET tools == BuildkiteTools(registry, order, enabledToolsets, readOnly, FALSE)
         IN  IF cmd = "http" /\ ~listenOk
             THEN [err |-> [isNil |-> FALSE, msg |-> "listen"], built |-> TRUE,
                   tools |-> tools, serving |-> FALSE]
             ELSE [err |-> NilError, built |-> TRUE, tools |-> tools,
                   serving |-> (cmd # "tools")]

----------------------------------------------------------------------------
(* HTTP middleware (pkg/middleware): bearer-token authentication and the   *)
(* middleware chain                                                        *)

\* a chain is built with at most this many Use and UseIf calls
MaxChainCalls == 3

\* strings.HasPrefix
HasPrefix(str, prefix) ==
    Len(str) >= Len(prefix) /\ SubSeq(str, 1, Len(prefix)) = prefix

\* strings.TrimPrefix
TrimPrefix(str, prefix) ==
    IF HasPrefix(str, prefix) THEN SubSeq(str, Len(prefix) + 1, Len(str)) ELSE str

\* variant: the comparison stops at the end of the shorter string
MutHmacEqual(x, y) ==
    \A i \in 1..(IF Len(x) < Len(y) THEN Len(x) ELSE Len(y)) : x[i] = y[i]

\* hmac.Equal: equal lengths and equal bytes
HmacEqual(x, y) ==
    Len(x) = Len(y) /\ \A i \in 1..Len(x) : x[i] = y[i]

\* "Bearer "
BearerPrefix == <<66, 101, 97, 114, 101, 114, 32>>

\* r.Header.Get("Authorization"): "" when the header is missing
HeaderGet(r) == IF r.hasAuthorization THEN r.authorization ELSE <<>>

\* http.Error(w, "Unauthorized", http.StatusUnauthorized); next is not called
Unauthorized ==
    [status |-> 401,
     body |-> <<85, 110, 97, 117, 116, 104, 111, 114, 105, 122, 101, 100>> \o <<10>>,
     nextCalled |-> FALSE]

\* the handler of Auth(token)(next), serving request r; next is handed r
Auth(token, r) ==
    LET authHeader == HeaderGet(r)
    IN  IF authHeader = <<>> \/ ~HasPrefix(authHeader, BearerPrefix) THEN Unauthorized
        ELSE IF ~HmacEqual(TrimPrefix(authHeader, BearerPrefix), token) THEN Unauthorized
        ELSE [nextCalled |-> TRUE, forwarded |-> r]

\* the configured tokens: "", "s" and "sk"
TokenPool == {<<>>, <<115>>, <<115, 107>>}

\* requests: without an Authorization header, or with one of the values
\* "", "Bearer", "Bearer ", "Bearer s", "Bearer sk", "Bearer S", "Bearer  s",
\* "Bearer s ", " Bearer s", "bearer s", "BEARER s", "Basic s", "s", "Bearers"
RequestPool ==
    {[hasAuthorization |-> FALSE, authorization |-> <<>>]}
    \cup {[hasAuthorization |-> TRUE, authorization |-> v] :
             v \in { <<>>,
                     <<66, 101, 97, 114, 101, 114>>,
                     <<66, 101, 97, 114, 101, 114, 32>>,
                     <<66, 101, 97, 114, 101, 114, 32, 115>>,
                     <<66, 101, 97, 114, 101, 114, 32, 115, 107>>,
                     <<66, 101, 97, 114, 101, 114, 32, 83>>,
                     <<66, 101, 97, 114, 101, 114, 32, 32, 115>>,
                     <<66, 101, 97, 114, 101, 114, 32, 115, 32>>,
                     <<32, 66, 101, 97, 114, 101, 114, 32, 115>>,
                     <<98, 101, 97, 114, 101, 114, 32, 115>>,
                     <<66, 69, 65, 82, 69, 82, 32, 115>>,
                     <<66, 97, 115, 105, 99, 32, 115>>,
                     <<115>>,
                     <<66, 101, 97, 114, 101, 114, 115>> }}

\* the middlewares given to a chain: 1 and 2 note their entry, call next and
\* note their exit; 3 notes its entry and exit without calling next
MiddlewarePool ==
    { [id |-> 1, callsNext |-> TRUE],
      [id |-> 2, callsNext |-> TRUE],
      [id |-> 3, callsNext |-> FALSE] }

\* NewChain
NewChain == <<>>

\* Chain.Use
Use(middlewares, middleware) == Append(middlewares, middleware)

\* Chain.UseIf
UseIf(middlewares, condition, middleware) ==
    IF condition THEN Append(middlewares, middleware) ELSE middlewares

\* the final handler
FinalHandler == [kind |-> "final"]

\* variant: the middlewares are applied first to last
RECURSIVE MutWrapFrom(_, _, _)
MutWrapFrom(middlewares, i, handler) ==
    IF i < 1 THEN handler
    ELSE MutWrapFrom(middlewares, i - 1,
                     [kind |-> "wrapped",
                      middleware |-> middlewares[Len(middlewares) + 1 - i],
                      next |-> handler])

\* the loop of Then from index i down: handler = c.middlewares[i](handler)
RECURSIVE WrapFrom(_, _, _)
WrapFrom(middlewares, i, handler) ==
    IF i < 1 THEN handler
    ELSE WrapFrom(middlewares, i - 1,
                  [kind |-> "wrapped", middleware |-> middlewares[i], next |-> handler])

\* Chain.Then
Then(middlewares, handler) == WrapFrom(middlewares, Len(middlewares), handler)

\* ServeHTTP on a handler: the order in which middlewares and the final
\* handler are entered and left
RECURSIVE ServeHTTP(_)
ServeHTTP(handler) ==
    IF handler.kind = "final" THEN << [event |-> "handler", id |-> 0] >>
    ELSE << [event |-> "before", id |-> handler.middleware.id] >>
         \o (IF handler.middleware.callsNext THEN ServeHTTP(handler.next) ELSE <<>>)
         \o << [event |-> "after", id |-> handler.middleware.id] >>


----------------------------------------------------------------------------
(* HTTP middleware (pkg/middleware): the client IP *)

\* the proxy headers in the order getClientIP checks them
ProxyHeaders ==
    << "CF-Connecting-IP", "True-Client-IP", "X-Real-IP", "X-Forwarded-For",
       "X-Client-IP" >>

\* r.Header.Get(header): "" when the request does not carry the header
ProxyHeaderGet(r, header) ==
    IF header \in DOMAIN r.Header THEN r.Header[header] ELSE <<>>

\* the pieces of strings.Split(s, sep) for a one-byte separator
RECURSIVE Split(_, _)
Split(s, sep) ==
    IF \A i \in 1..Len(s) : s[i] # sep THEN << s >>
    ELSE LET i == CHOOSE k \in 1..Len(s) :
                     s[k] = sep /\ \A j \in 1..(k - 1) : s[j] # sep
         IN  << SubSeq(s, 1, i - 1) >> \o Split(SubSeq(s, i + 1, Len(s)), sep)

\* unicode.IsSpace on an ASCII byte: \t \n \v \f \r and the space
IsSpace(c) == c \in {9, 10, 11, 12, 13, 32}

RECURSIVE TrimLeft(_)
TrimLeft(s) ==
    IF s # <<>> /\ IsSpace(s[1]) THEN TrimLeft(Tail(s)) ELSE s

RECURSIVE TrimRight(_)
TrimRight(s) ==
    IF s # <<>> /\ IsSpace(s[Len(s)]) THEN TrimRight(SubSeq(s, 1, Len(s) - 1)) ELSE s

\* strings.TrimSpace
TrimSpace(s) == TrimRight(TrimLeft(s))

\* variant: an X-Forwarded-For whose first entry is empty is returned as it is
RECURSIVE MutCheckHeaders(_, _)
MutCheckHeaders(r, i) ==
    IF i > Len(ProxyHeaders) THEN r.RemoteAddr
    ELSE LET header == ProxyHeaders[i]
             ip == ProxyHeaderGet(r, header)
         IN  IF ip = <<>> THEN MutCheckHeaders(r, i + 1)
             ELSE IF header = "X-Forwarded-For"
                  THEN TrimSpace(Split(ip, 44)[1])
                  ELSE ip

\* the loop of getClientIP over the headers from index i on, and the fall
\* back to RemoteAddr after it
RECURSIVE CheckHeaders(_, _)
CheckHeaders(r, i) ==
    IF i > Len(ProxyHeaders) THEN r.RemoteAddr
    ELSE LET header == ProxyHeaders[i]
             ip == ProxyHeaderGet(r, header)
         IN  IF ip = <<>> THEN CheckHeaders(r, i + 1)
             ELSE IF header = "X-Forwarded-For"
                  THEN LET ips == Split(ip, 44)
                           firstIP == TrimSpace(ips[1])
                       IN  IF Len(ips) > 0 /\ firstIP # <<>> THEN firstIP
                           ELSE CheckHeaders(r, i + 1)
                  ELSE ip

\* getClientIP
getClientIP(r, trustProxy) ==
    IF ~trustProxy THEN r.RemoteAddr ELSE CheckHeaders(r, 1)

\* variant: the proxy headers are read whatever trustProxy says
MutClientIP(trustProxy, r) ==
    [nextCalled |-> TRUE, forwarded |-> r, client_ip |-> getClientIP(r, TRUE)]

\* the handler of ClientIP(trustProxy)(next), serving request r: next is
\* handed r with the client IP in its context
ClientIP(trustProxy, r) ==
    [nextCalled |-> TRUE, forwarded |-> r, client_ip |-> getClientIP(r, trustProxy)]

\* the remote addresses: "9" and "8"
RemoteAddrPool == {<<57>>, <<56>>}

\* the values of X-Forwarded-For: "", "1", " 2 ,3", ",4", " , ", " \t",
\* "5, 6", ",", " 7"
ForwardedForPool ==
    { <<>>, <<49>>, <<32, 50, 32, 44, 51>>, <<44, 52>>, <<32, 44, 32>>,
      <<32, 9>>, <<53, 44, 32, 54>>, <<44>>, <<32, 55>> }

\* the values each header can carry; X-Real-IP can carry " r " and
\* CF-Connecting-IP an empty value or "c,d"
HeaderValues(header) ==
    CASE header = "CF-Connecting-IP" -> {<<>>, <<99, 44, 100>>}
      [] header = "True-Client-IP" -> {<<116>>}
      [] header = "X-Real-IP" -> {<<32, 114, 32>>}
      [] header = "X-Forwarded-For" -> ForwardedForPool
      [] header = "X-Client-IP" -> {<<120>>}

\* the header maps: every subset of the proxy headers, each with a value
HeaderPool ==
    UNION { [present -> UNION {HeaderValues(h) : h \in present}] :
               present \in SUBSET {ProxyHeaders[i] : i \in 1..Len(ProxyHeaders)} }

\* the requests seen by the ClientIP middleware
ClientIPRequests ==
    { [RemoteAddr |-> a, Header |-> h] :
         a \in RemoteAddrPool,
         h \in {m \in HeaderPool : \A k \in DOMAIN m : m[k] \in HeaderValues(k)} }


----------------------------------------------------------------------------
(* HTTP middleware (pkg/middleware): the request log *)

\* the wrapped handler makes at most this many calls on its response writer
MaxWriterCalls == 3

\* http.StatusOK
StatusOK == 200

\* the status codes a handler sends
StatusPool == {StatusOK, 404, 500}

\* newResponseWriter; ResponseWriter is the underlying writer, kept as the
\* calls it has received
newResponseWriter ==
    [ResponseWriter |-> <<>>, statusCode |-> StatusOK, written |-> FALSE]

\* variant: every WriteHeader call is recorded and passed on
MutWriteHeader(rw, code) ==
    [rw EXCEPT !.statusCode = code,
               !.written = TRUE,
               !.ResponseWriter = Append(@, [method |-> "WriteHeader", code |-> code])]

\* responseWriter.WriteHeader
WriteHeader(rw, code) ==
    IF ~rw.written
    THEN [rw EXCEPT !.statusCode = code,
                    !.written = TRUE,
                    !.ResponseWriter = Append(@, [method |-> "WriteHeader",
                                                  code |-> code])]
    ELSE rw

\* responseWriter.Write
Write(rw) ==
    LET headed == IF ~rw.written THEN WriteHeader(rw, StatusOK) ELSE rw
    IN  [headed EXCEPT !.ResponseWriter = Append(@, [method |-> "Write"])]


----------------------------------------------------------------------------
(* API errors (pkg/buildkite/errors.go) *)

\* http.StatusUnauthorized
StatusUnauthorized == 401

\* http.StatusForbidden
StatusForbidden == 403

\* "Authentication failed: Your API token is invalid or has expired. Please
\* check your BUILDKITE_API_TOKEN and ensure it's still valid."
AuthenticationFailed ==
    << 65, 117, 116, 104, 101, 110, 116, 105, 99, 97, 116, 105, 111, 110, 32, 102,
       97, 105, 108, 101, 100, 58, 32, 89, 111, 117, 114, 32, 65, 80, 73, 32,
       116, 111, 107, 101, 110, 32, 105, 115, 32, 105, 110, 118, 97, 108, 105, 100,
       32, 111, 114, 32, 104, 97, 115, 32, 101, 120, 112, 105, 114, 101, 100, 46,
       32, 80, 108, 101, 97, 115, 101, 32, 99, 104, 101, 99, 107, 32, 121, 111,
       117, 114, 32, 66, 85, 73, 76, 68, 75, 73, 84, 69, 95, 65, 80, 73,
       95, 84, 79, 75, 69, 78, 32, 97, 110, 100, 32, 101, 110, 115, 117, 114,
       101, 32, 105, 116, 39, 115, 32, 115, 116, 105, 108, 108, 32, 118, 97, 108,
       105, 100, 46 >>

\* "Permission denied: Your API token doesn't have the required permissions
\* for this operation. ", the text before %s
PermissionDenied ==
    << 80, 101, 114, 109, 105, 115, 115, 105, 111, 110, 32, 100, 101, 110, 105, 101,
       100, 58, 32, 89, 111, 117, 114, 32, 65, 80, 73, 32, 116, 111, 107, 101,
       110, 32, 100, 111, 101, 115, 110, 39, 116, 32, 104, 97, 118, 101, 32, 116,
       104, 101, 32, 114, 101, 113, 117, 105, 114, 101, 100, 32, 112, 101, 114, 109,
       105, 115, 115, 105, 111, 110, 115, 32, 102, 111, 114, 32, 116, 104, 105, 115,
       32, 111, 112, 101, 114, 97, 116, 105, 111, 110, 46, 32 >>

\* a nil error, a nil *http.Response and a nil []byte
NilErr == [isNil |-> TRUE]

\* mcp.NewToolResultError
NewToolResultError(text) == [isNil |-> FALSE, IsError |-> TRUE, Text |-> text]

\* errors.As(err, &errResp): the *buildkite.ErrorResponse in the chain of err
ErrorsAs(err) ==
    IF err.ErrorResponse.isNil THEN [ok |-> FALSE]
    ELSE [ok |-> TRUE, errResp |-> err.ErrorResponse]

\* variant: the message is preferred to the raw body
MutGetDetailedErrorMessage(errResp) ==
    IF errResp.Message # <<>> THEN errResp.Message
    ELSE IF ~errResp.RawBody.isNil THEN errResp.RawBody.bytes
    ELSE <<>>

\* getDetailedErrorMessage
getDetailedErrorMessage(errResp) ==
    IF ~errResp.RawBody.isNil THEN errResp.RawBody.bytes
    ELSE IF errResp.Message # <<>> THEN errResp.Message
    ELSE <<>>

\* handleAPIError; a nil result is NilErr
handleAPIError(err) ==
    IF err.isNil THEN NilErr
    ELSE LET as == ErrorsAs(err)
             errResp == as.errResp
         IN  IF as.ok /\ ~errResp.Response.isNil
                      /\ errResp.Response.StatusCode = StatusUnauthorized
             THEN NewToolResultError(AuthenticationFailed)
             ELSE IF as.ok /\ ~errResp.Response.isNil
                           /\ errResp.Response.StatusCode = StatusForbidden
             THEN NewToolResultError(PermissionDenied \o getDetailedErrorMessage(errResp))
             ELSE IF as.ok /\ ~errResp.RawBody.isNil
             THEN NewToolResultError(errResp.RawBody.bytes)
             ELSE IF as.ok /\ errResp.Message # <<>>
             THEN NewToolResultError(errResp.Message)
             ELSE NewToolResultError(err.Error)

\* the error responses of the Buildkite client: with or without a response,
\* a raw body (nil, "" or "r") and a message ("" or "m")
ErrorResponsePool ==
    { [isNil |-> FALSE, Response |-> response, RawBody |-> rawBody, Message |-> message] :
         response \in {NilErr} \cup { [isNil |-> FALSE, StatusCode |-> code] :
                                         code \in {StatusUnauthorized, StatusForbidden,
                                                   404, 500} },
         rawBody \in {NilErr} \cup { [isNil |-> FALSE, bytes |-> bytes] :
                                        bytes \in {<<>>, <<114>>} },
         message \in {<<>>, <<109>>} }

\* the errors handed to handleAPIError: nil, an error that is not from the
\* Buildkite client ("e"), an error response ("b") and an error that wraps
\* one ("w")
ErrorPool ==
    {NilErr}
    \cup { [isNil |-> FALSE, Error |-> <<101>>, ErrorResponse |-> NilErr] }
    \cup { [isNil |-> FALSE, Error |-> text, ErrorResponse |-> errResp] :
              text \in {<<98>>, <<119>>}, errResp \in ErrorResponsePool }

----------------------------------------------------------------------------
(* The state machine *)

NoCall == [op |-> "none"]

Init ==
    /\ toolsets = NewToolsetRegistry
    /\ call = NoCall

DoRegister ==
    /\ call = NoCall
    /\ \E name \in KeyPool, toolset \in ToolsetPool :
          /\ TotalTools(Register(toolsets, name, toolset)) <= MaxTotalTools
          /\ toolsets' = Register(toolsets, name, toolset)
          /\ call' = [op |-> "Register", name |-> name, toolset |-> toolset,
                       previous |-> Get(toolsets, name)]

DoRegisterToolsets ==
    /\ call = NoCall
    /\ \E m \in MappingPool : \E order \in MapOrders(DOMAIN m) :
          LET registered == RegisterToolsets(toolsets, m, order)
          IN  /\ TotalTools(registered) <= MaxTotalTools
              /\ toolsets' = registered
              /\ call' = [op |-> "RegisterToolsets", toolsets |-> m]

\* BuildkiteTools: a fresh registry is populated with the builtin toolsets and
\* the tool list is resolved from it
DoBuildkiteTools ==
    /\ call = NoCall
    /\ toolsets = NewToolsetRegistry
    /\ \E regOrder \in MapOrders(DOMAIN CreateBuiltinToolsets) :
       \E enabledToolsets \in NameLists, readOnly \in BOOLEAN, dynamicToolsets \in BOOLEAN :
          LET registry == RegisterToolsets(NewToolsetRegistry, CreateBuiltinToolsets,
                                           regOrder)
          IN  \E order \in ListOrders(registry, enabledToolsets) :
                 /\ call' = [op |-> "BuildkiteTools",
                             enabledToolsets |-> enabledToolsets,
                             readOnly |-> readOnly,
                             dynamicToolsets |-> dynamicToolsets,
                             result |-> BuildkiteTools(registry, order, enabledToolsets,
                                                       readOnly, dynamicToolsets)]
                 /\ toolsets' = StoredAfterLoop(registry, dynamicToolsets)

\* a command runs at process start; the registry is populated only if the
\* tool list is built
DoRun ==
    /\ call = NoCall
    /\ toolsets = NewToolsetRegistry
    /\ \E cmd \in Commands, setupOk \in BOOLEAN, listenOk \in BOOLEAN,
          enabledToolsets \in ConfigLists, readOnly \in BOOLEAN :
          \E regOrder \in MapOrders(DOMAIN CreateBuiltinToolsets) :
             LET registry == RegisterToolsets(NewToolsetRegistry, CreateBuiltinToolsets,
                                              regOrder)
             IN  \E order \in ListOrders(registry, enabledToolsets) :
                    LET result == Run(cmd, setupOk, listenOk, registry, order,
                                      enabledToolsets, readOnly)
                    IN  /\ call' = [op |-> "Run",
                                    cmd |-> cmd,
                                    enabledToolsets |-> enabledToolsets,
                                    readOnly |-> readOnly,
                                    setupOk |-> setupOk,
                                    result |-> result]
                        /\ toolsets' = IF result.built THEN registry ELSE toolsets

DoList ==
    /\ call = NoCall
    /\ \E order \in MapOrders(DOMAIN toolsets) :
          call' = [op |-> "List", result |-> List(toolsets, order)]
    /\ UNCHANGED toolsets

DoGet ==
    /\ call = NoCall
    /\ \E name \in NamePool :
          call' = [op |-> "Get", name |-> name, result |-> Get(toolsets, name)]
    /\ UNCHANGED toolsets

DoGetToolsForToolsets ==
    /\ call = NoCall
    /\ \E toolsetNames \in NameLists, readOnlyMode \in BOOLEAN :
          call' = [op |-> "GetToolsForToolsets",
                   toolsetNames |-> toolsetNames,
                   readOnlyMode |-> readOnlyMode,
                   result |-> GetToolsForToolsets(toolsets, toolsetNames, readOnlyMode)]
    /\ UNCHANGED toolsets

DoGetAllTools ==
    /\ call = NoCall
    /\ \E order \in MapOrders(DOMAIN toolsets) :
          call' = [op |-> "GetAllTools", result |-> GetAllTools(toolsets, order)]
    /\ UNCHANGED toolsets

DoGetEnabledTools ==
    /\ call = NoCall
    /\ \E enabledToolsets \in NameLists, readOnlyMode \in BOOLEAN :
          \E order \in ListOrders(toolsets, enabledToolsets) :
             call' = [op |-> "GetEnabledTools",
                      enabledToolsets |-> enabledToolsets,
                      readOnlyMode |-> readOnlyMode,
                      result |-> GetEnabledTools(toolsets, order, enabledToolsets,
                                                 readOnlyMode)]
    /\ UNCHANGED toolsets

DoGetRequiredScopes ==
    /\ call = NoCall
    /\ \E enabledToolsets \in NameLists, readOnlyMode \in BOOLEAN :
          \E order \in ListOrders(toolsets, enabledToolsets) :
          \E scopeOrder \in MapOrders(CollectScopes(
                   toolsets, EnabledNames(toolsets, order, enabledToolsets),
                   readOnlyMode, {})) :
             call' = [op |-> "GetRequiredScopes",
                      enabledToolsets |-> enabledToolsets,
                      readOnlyMode |-> readOnlyMode,
                      result |-> GetRequiredScopes(toolsets, order, scopeOrder,
                                                   enabledToolsets, readOnlyMode)]
    /\ UNCHANGED toolsets

DoGetMetadata ==
    /\ call = NoCall
    /\ \E order \in MapOrders(DOMAIN toolsets) :
          call' = [op |-> "GetMetadata", result |-> GetMetadata(toolsets, order)]
    /\ UNCHANGED toolsets

DoSearchToolsWithMetadata ==
    /\ call = NoCall
    /\ \E query \in QueryPool, limit \in LimitPool, order \in MapOrders(DOMAIN toolsets) :
          call' = [op |-> "SearchToolsWithMetadata",
                   query |-> query,
                   limit |-> limit,
                   result |-> SearchToolsWithMetadata(toolsets, order, query, limit)]
    /\ UNCHANGED toolsets

\* a client calls search_tools
DoToolSearch ==
    /\ call = NoCall
    /\ \E query \in QueryPool, order \in MapOrders(DOMAIN toolsets) :
          call' = [op |-> "search_tools",
                   query |-> query,
                   result |-> ToolSearchHandler(toolsets, order, query)]
    /\ UNCHANGED toolsets

\* the http command has built the server: its registry holds the builtin toolsets
ServerBuilt == toolsets = CreateBuiltinToolsets

\* a request reaches the Auth middleware of the HTTP server
DoAuth ==
    /\ call = NoCall
    /\ ServerBuilt
    /\ \E token \in TokenPool, r \in RequestPool :
          call' = [op |-> "Auth", token |-> token, request |-> r,
                   result |-> Auth(token, r)]
    /\ UNCHANGED toolsets

\* the http command starts a middleware chain; uses notes the calls made on it
DoNewChain ==
    /\ call = NoCall
    /\ ServerBuilt
    /\ call' = [op |-> "Chain", middlewares |-> NewChain, uses |-> <<>>]
    /\ UNCHANGED toolsets

DoUse ==
    /\ call.op = "Chain"
    /\ Len(call.uses) < MaxChainCalls
    /\ \E middleware \in MiddlewarePool :
          call' = [op |-> "Chain",
                   middlewares |-> Use(call.middlewares, middleware),
                   uses |-> Append(call.uses,
                                   [method |-> "Use", condition |-> TRUE,
                                    middleware |-> middleware])]
    /\ UNCHANGED toolsets

DoUseIf ==
    /\ call.op = "Chain"
    /\ Len(call.uses) < MaxChainCalls
    /\ \E condition \in BOOLEAN, middleware \in MiddlewarePool :
          call' = [op |-> "Chain",
                   middlewares |-> UseIf(call.middlewares, condition, middleware),
                   uses |-> Append(call.uses,
                                   [method |-> "UseIf", condition |-> condition,
                                    middleware |-> middleware])]
    /\ UNCHANGED toolsets

\* Then wraps the final handler, and a request is served by the result
DoThen ==
    /\ call.op = "Chain"
    /\ call' = [op |-> "Then",
                middlewares |-> call.middlewares,
                uses |-> call.uses,
                result |-> ServeHTTP(Then(call.middlewares, FinalHandler))]
    /\ UNCHANGED toolsets


\* a request reaches the ClientIP middleware of the HTTP server
DoClientIP ==
    /\ call = NoCall
    /\ ServerBuilt
    /\ \E trustProxy \in BOOLEAN, r \in ClientIPRequests :
          call' = [op |-> "ClientIP", trustProxy |-> trustProxy, request |-> r,
                   result |-> ClientIP(trustProxy, r)]
    /\ UNCHANGED toolsets


\* a request reaches the RequestLog middleware of the HTTP server, which
\* wraps the response writer and calls next; calls notes what next does
DoRequestLog ==
    /\ call = NoCall
    /\ ServerBuilt
    /\ call' = [op |-> "RequestLog", wrapped |-> newResponseWriter,
                calls |-> <<>>, returned |-> FALSE, log |-> <<>>]
    /\ UNCHANGED toolsets

\* the wrapped handler calls WriteHeader
DoWriteHeader ==
    /\ call.op = "RequestLog"
    /\ ~call.returned
    /\ Len(call.calls) < MaxWriterCalls
    /\ \E code \in StatusPool :
          call' = [call EXCEPT !.wrapped = WriteHeader(@, code),
                               !.calls = Append(@, [method |-> "WriteHeader",
                                                    code |-> code])]
    /\ UNCHANGED toolsets

\* the wrapped handler calls Write
DoWrite ==
    /\ call.op = "RequestLog"
    /\ ~call.returned
    /\ Len(call.calls) < MaxWriterCalls
    /\ call' = [call EXCEPT !.wrapped = Write(@),
                            !.calls = Append(@, [method |-> "Write"])]
    /\ UNCHANGED toolsets

\* the wrapped handler returns and RequestLog logs the request
DoLog ==
    /\ call.op = "RequestLog"
    /\ ~call.returned
    /\ call' = [call EXCEPT !.returned = TRUE,
                            !.log = Append(@, [status |-> call.wrapped.statusCode])]
    /\ UNCHANGED toolsets


\* a tool handler of the server hands the error of an API call to
\* handleAPIError
DoHandleAPIError ==
    /\ call = NoCall
    /\ ServerBuilt
    /\ \E err \in ErrorPool :
          call' = [op |-> "handleAPIError", err |-> err, result |-> handleAPIError(err)]
    /\ UNCHANGED toolsets


\* a client calls search_tools on a server whose tool list was built with
\* dynamic loading for enabledToolsets and readOnly (exposed is that list)
DoServedSearch ==
    /\ call = NoCall
    /\ ServerBuilt
    /\ \E enabledToolsets \in NameLists, readOnly \in BOOLEAN, query \in QueryPool :
          LET registry == SearchRegistry(toolsets, enabledToolsets, readOnly)
          IN  \E listOrder \in ListOrders(toolsets, enabledToolsets),
                 order \in MapOrders(DOMAIN registry) :
                 call' = [op |-> "served search_tools",
                          enabledToolsets |-> enabledToolsets,
                          readOnly |-> readOnly,
                          exposed |-> BuildkiteTools(toolsets, listOrder, enabledToolsets,
                                                     readOnly, TRUE),
                          query |-> query,
                          found |-> SearchToolsWithMetadata(registry, order, query,
                                                            SearchLimit),
                          result |-> ToolSearchHandler(registry, order, query)]
    /\ UNCHANGED toolsets

\* the caller has read the result
Return ==
    /\ call # NoCall
    /\ call' = NoCall
    /\ UNCHANGED toolsets

Next ==
    \/ DoRegister
    \/ DoRegisterToolsets
    \/ DoBuildkiteTools
    \/ DoRun
    \/ DoList
    \/ DoGet
    \/ DoGetToolsForToolsets
    \/ DoGetAllTools
    \/ DoGetEnabledTools
    \/ DoGetRequiredScopes
    \/ DoGetMetadata
    \/ DoSearchToolsWithMetadata
    \/ DoToolSearch
    \/ DoAuth
    \/ DoNewChain
    \/ DoUse
    \/ DoUseIf
    \/ DoThen
    \/ DoClientIP
    \/ DoRequestLog
    \/ DoWriteHeader
    \/ DoWrite
    \/ DoLog
    \/ DoHandleAPIError
    \/ DoServedSearch
    \/ Return

Spec == Init /\ [][Next]_vars

----------------------------------------------------------------------------
(* Concurrent readers: the registry is populated once, and then sessions    *)
(* query it in parallel.  A query begins, reads the map, and returns; what  *)
(* one session does between the begin and the return of another is         *)
(* unconstrained.  Under this specification call holds one record per      *)
(* session.                                                                *)

\* two tool-call sessions
Readers == {"s1", "s2"}

\* the queries a session makes: every query method of the registry
ReaderQueries ==
    { [op |-> "Get", name |-> <<66>>],
      [op |-> "Get", name |-> <<122>>],
      [op |-> "List"],
      [op |-> "GetEnabledTools", enabledToolsets |-> <<ToolsetAll>>, readOnlyMode |-> FALSE],
      [op |-> "GetToolsForToolsets", toolsetNames |-> << <<97>>, <<66>> >>,
       readOnlyMode |-> FALSE],
      [op |-> "GetRequiredScopes", enabledToolsets |-> << <<122>>, ToolsetAll >>,
       readOnlyMode |-> FALSE],
      [op |-> "GetMetadata"],
      [op |-> "SearchToolsWithMetadata", query |-> <<97>>, limit |-> MaxLimit],
      [op |-> "GetAllTools"] }

\* the results a query can return on a registry, one per order in which the
\* maps it ranges over may be visited
QueryResults(tr, q) ==
    CASE q.op = "Get" -> {Get(tr, q.name)}
      [] q.op = "List" -> {List(tr, order) : order \in MapOrders(DOMAIN tr)}
      [] q.op = "GetEnabledTools" ->
            {GetEnabledTools(tr, order, q.enabledToolsets, q.readOnlyMode) :
                order \in ListOrders(tr, q.enabledToolsets)}
      [] q.op = "GetToolsForToolsets" ->
            {GetToolsForToolsets(tr, q.toolsetNames, q.readOnlyMode)}
      [] q.op = "GetRequiredScopes" ->
            UNION {{GetRequiredScopes(tr, order, scopeOrder, q.enabledToolsets,
                                      q.readOnlyMode) :
                       scopeOrder \in MapOrders(CollectScopes(
                           tr, EnabledNames(tr, order, q.enabledToolsets),
                           q.readOnlyMode, {}))} :
                   order \in ListOrders(tr, q.enabledToolsets)}
      [] q.op = "GetMetadata" -> {GetMetadata(tr, order) : order \in MapOrders(DOMAIN tr)}
      [] q.op = "SearchToolsWithMetadata" ->
            {SearchToolsWithMetadata(tr, order, q.query, q.limit) :
                order \in MapOrders(DOMAIN tr)}
      [] q.op = "GetAllTools" -> {GetAllTools(tr, order) : order \in MapOrders(DOMAIN tr)}

\* variant: a lookup of a missing name inserts the zero toolset under it
MutAfterQuery(tr, q) ==
    IF q.op = "Get" /\ q.name \notin DOMAIN tr THEN Register(tr, q.name, ZeroToolset)
    ELSE tr

\* the map after a query: no query method assigns to tr.toolsets
AfterQuery(tr, q) == tr

Idle == [phase |-> "idle"]

ReadersInit ==
    /\ toolsets = NewToolsetRegistry
    /\ call = [r \in Readers |-> Idle]

\* startup: the registry is populated by one RegisterToolsets, before any query
Populate ==
    /\ toolsets = NewToolsetRegistry
    /\ \E m \in MappingPool : \E order \in MapOrders(DOMAIN m) :
          /\ DOMAIN m # {}
          /\ toolsets' = RegisterToolsets(toolsets, m, order)
    /\ UNCHANGED call

\* a session calls a query method
ReaderBegin ==
    /\ toolsets # NewToolsetRegistry
    /\ \E r \in Readers, q \in ReaderQueries :
          /\ call[r] = Idle
          /\ call' = [call EXCEPT ![r] = [phase |-> "started", query |-> q]]
    /\ UNCHANGED toolsets

\* the query method reads the map and returns
ReaderFinish ==
    \E r \in Readers :
       /\ call[r].phase = "started"
       /\ \E result \in QueryResults(toolsets, call[r].query) :
             call' = [call EXCEPT ![r] = [phase |-> "done", query |-> call[r].query,
                                          result |-> result]]
       /\ toolsets' = AfterQuery(toolsets, call[r].query)

\* the session has read the result
ReaderReturn ==
    /\ \E r \in Readers :
          /\ call[r].phase = "done"
          /\ call' = [call EXCEPT ![r] = Idle]
    /\ UNCHANGED toolsets

ReadersNext ==
    \/ Populate
    \/ ReaderBegin
    \/ ReaderFinish
    \/ ReaderReturn

SpecReaders == ReadersInit /\ [][ReadersNext]_vars

----------------------------------------------------------------------------
(* Properties *)

Range(s) == {s[i] : i \in 1..Len(s)}

\* a sequence of strings in strictly ascending bytewise order
StrictlyAscending(s) == \A i \in 1..(Len(s) - 1) : Compare(s[i], s[i + 1]) < 0

\* the number of entries of s equal to e
Count(s, e) == Cardinality({i \in 1..Len(s) : s[i] = e})

\* the query occurs in the text, case-insensitively
Matches(text, query) == Contains(ToLower(text), ToLower(query))

\* C1: when the enabled-name list contains "all", GetEnabledTools and
\* GetRequiredScopes return what they return for the explicit list List(),
\* for both readOnly values and whatever else the list holds.
C1_AllIsExplicitList ==
    /\ (call.op = "GetEnabledTools" /\ SliceContains(call.enabledToolsets, ToolsetAll))
          => \A order \in MapOrders(DOMAIN toolsets) :
                call.result = GetEnabledTools(toolsets, order, List(toolsets, order),
                                              call.readOnlyMode)
    /\ (call.op = "GetRequiredScopes" /\ SliceContains(call.enabledToolsets, ToolsetAll))
          => \A order \in MapOrders(DOMAIN toolsets) :
             \A scopeOrder \in MapOrders(Range(call.result)) :
                call.result = GetRequiredScopes(toolsets, order, scopeOrder,
                                                List(toolsets, order), call.readOnlyMode)

\* "all" came second in a two-name list and tools of two toolsets were returned
C1_Witness ==
    /\ call.op = "GetEnabledTools"
    /\ Len(call.enabledToolsets) = 2
    /\ call.enabledToolsets[1] # ToolsetAll
    /\ call.enabledToolsets[2] = ToolsetAll
    /\ Len(call.result) = 2
    /\ \E j, k \in DOMAIN toolsets : j # k /\ toolsets[j].Tools # <<>> /\ toolsets[k].Tools # <<>>

\* C2: in read-only mode every tool returned by GetEnabledTools carries a
\* ReadOnlyHint that is present and true.
C2_ReadOnlyToolsOnly ==
    (call.op = "GetEnabledTools" /\ call.readOnlyMode)
       => \A i \in 1..Len(call.result) : call.result[i].Tool.ReadOnlyHint = "true"

\* a read-only query returned a tool from a toolset that also holds a tool
\* without a hint or with a false hint
C2_Witness ==
    /\ call.op = "GetEnabledTools"
    /\ call.readOnlyMode
    /\ call.result # <<>>
    /\ \E k \in Range(call.enabledToolsets) \cap DOMAIN toolsets :
          /\ \E i \in 1..Len(toolsets[k].Tools) : toolsets[k].Tools[i].Tool.ReadOnlyHint = "true"
          /\ \E i \in 1..Len(toolsets[k].Tools) : toolsets[k].Tools[i].Tool.ReadOnlyHint # "true"

\* C3: GetRequiredScopes is strictly ascending (sorted, no duplicates) and its
\* elements are exactly the scopes required by the tools that GetEnabledTools
\* returns for the same arguments.
C3_ScopesSortedUnion ==
    call.op = "GetRequiredScopes"
       => /\ StrictlyAscending(call.result)
          /\ \A order \in ListOrders(toolsets, call.enabledToolsets) :
                Range(call.result) =
                   UNION {Range(td.RequiredScopes) :
                            td \in Range(GetEnabledTools(toolsets, order, call.enabledToolsets,
                                                         call.readOnlyMode))}

\* three scopes were returned, one of them required more than once
C3_Witness ==
    /\ call.op = "GetRequiredScopes"
    /\ Len(call.result) = 3
    /\ \E k \in DOMAIN toolsets : \E i \in 1..Len(toolsets[k].Tools) :
          \E s \in Range(call.result) : Count(toolsets[k].Tools[i].RequiredScopes, s) > 1

\* C4: for a limit > 0, SearchToolsWithMetadata returns at most limit results,
\* in ascending order of tool name.
C4_SearchBoundedSorted ==
    (call.op = "SearchToolsWithMetadata" /\ call.limit > 0)
       => /\ Len(call.result) <= call.limit
          /\ \A i \in 1..(Len(call.result) - 1) :
                Compare(call.result[i].Tool.Name, call.result[i + 1].Tool.Name) <= 0

\* the limit was reached with two results, and the result of the toolset
\* scanned second comes first
C4_Witness ==
    /\ call.op = "SearchToolsWithMetadata"
    /\ call.limit = 2
    /\ Len(call.result) = 2
    /\ Compare(call.result[1].ToolsetName, call.result[2].ToolsetName) > 0
    /\ Compare(call.result[1].Tool.Name, call.result[2].Tool.Name) < 0

\* C5: every search result matches the query in its name or its description,
\* case-insensitively, and matchedIn is "both", "name" or "description"
\* exactly as the two matches say.
C5_MatchClassified ==
    call.op = "SearchToolsWithMetadata"
       => \A i \in 1..Len(call.result) :
             LET nameMatch == Matches(call.result[i].Tool.Name, call.query)
                 descMatch == Matches(call.result[i].Tool.Description, call.query)
             IN  /\ nameMatch \/ descMatch
                 /\ call.result[i].MatchedIn = "both" <=> (nameMatch /\ descMatch)
                 /\ call.result[i].MatchedIn = "name" <=> (nameMatch /\ ~descMatch)
                 /\ call.result[i].MatchedIn = "description" <=> (~nameMatch /\ descMatch)

\* one result matched in both fields and another only in its description,
\* which holds the query in the other case
C5_Witness ==
    /\ call.op = "SearchToolsWithMetadata"
    /\ \E i \in 1..Len(call.result) : call.result[i].MatchedIn = "both"
    /\ \E i \in 1..Len(call.result) :
          /\ call.result[i].MatchedIn = "description"
          /\ ~Contains(call.result[i].Tool.Description, call.query)

\* the registered tools in scan order: toolsets by ascending key, tools in
\* stored order
ScanOrder ==
    LET keys == CHOOSE s \in Perms(DOMAIN toolsets) : StrictlyAscending(s)
        RECURSIVE Flatten(_)
        Flatten(k) ==
            IF k > Len(keys) THEN <<>>
            ELSE [i \in 1..Len(toolsets[keys[k]].Tools) |->
                     [ToolsetName |-> keys[k], Def |-> toolsets[keys[k]].Tools[i]]]
                 \o Flatten(k + 1)
    IN  Flatten(1)

\* the tools of the scan order that match the query
MatchesInScanOrder(query) ==
    SelectSeq(ScanOrder,
              LAMBDA e : \/ Matches(e.Def.Tool.Name, query)
                         \/ Matches(e.Def.Tool.Description, query))

\* C6: for a limit > 0 the result consists of exactly the first
\* min(limit, number of matches) matching tools of the scan order, sorted by
\* tool name.
C6_FirstMatchesSorted ==
    (call.op = "SearchToolsWithMetadata" /\ call.limit > 0)
       => LET matching == MatchesInScanOrder(call.query)
              n == IF Len(matching) < call.limit THEN Len(matching) ELSE call.limit
              expected == SubSeq(matching, 1, n)
              found == [i \in 1..Len(call.result) |->
                           [ToolsetName |-> call.result[i].ToolsetName,
                            Def |-> [Tool |-> call.result[i].Tool,
                                     RequiredScopes |-> call.result[i].RequiredScopes]]]
              wanted == [i \in 1..Len(expected) |->
                           [ToolsetName |-> expected[i].ToolsetName,
                            Def |-> [Tool |-> expected[i].Def.Tool,
                                     RequiredScopes |-> expected[i].Def.RequiredScopes]]]
          IN  /\ Len(found) = Len(wanted)
              /\ \A e \in Range(found) \cup Range(wanted) : Count(found, e) = Count(wanted, e)
              /\ \A i \in 1..(Len(call.result) - 1) :
                    Compare(call.result[i].Tool.Name, call.result[i + 1].Tool.Name) <= 0

\* the limit cut the scan short of a matching tool whose name sorts before
\* the name of a returned tool
C6_Witness ==
    /\ call.op = "SearchToolsWithMetadata"
    /\ call.limit > 0
    /\ Len(call.result) = call.limit
    /\ LET matching == MatchesInScanOrder(call.query)
       IN  /\ Len(matching) > call.limit
           /\ Compare(matching[Len(matching)].Def.Tool.Name, call.result[1].Tool.Name) < 0

\* C7: List() returns every registered toolset name exactly once, in strictly
\* ascending order, after any sequence of Register and RegisterToolsets calls.
C7_ListSortedKeys ==
    call.op = "List"
       => /\ StrictlyAscending(call.result)
          /\ Range(call.result) = DOMAIN toolsets
          /\ Len(call.result) = Cardinality(DOMAIN toolsets)

\* both keys are registered and listed
C7_Witness ==
    /\ call.op = "List"
    /\ Len(call.result) = 2

\* the names of a list that are registered
KnownNames(names) == SelectSeq(names, LAMBDA n : n \in DOMAIN toolsets)

\* the names of a list that are registered or are "all"
KnownOrAll(names) == SelectSeq(names, LAMBDA n : n \in DOMAIN toolsets \/ n = ToolsetAll)

\* C8 as stated: the result for a list equals the result for the list with
\* every name that is not registered removed.
C8_UnregisteredRemoved ==
    /\ call.op = "GetEnabledTools"
          => \A order \in ListOrders(toolsets, KnownNames(call.enabledToolsets)) :
                call.result = GetEnabledTools(toolsets, order,
                                              KnownNames(call.enabledToolsets),
                                              call.readOnlyMode)
    /\ call.op = "GetRequiredScopes"
          => \A order \in ListOrders(toolsets, KnownNames(call.enabledToolsets)) :
             \A scopeOrder \in MapOrders(Range(call.result)) :
                call.result = GetRequiredScopes(toolsets, order, scopeOrder,
                                                KnownNames(call.enabledToolsets),
                                                call.readOnlyMode)

\* C8 as amended: the result for a list equals the result for the list with
\* every name removed that is neither registered nor "all".
C8_UnknownRemoved ==
    /\ call.op = "GetEnabledTools"
          => \A order \in ListOrders(toolsets, KnownOrAll(call.enabledToolsets)) :
                call.result = GetEnabledTools(toolsets, order,
                                              KnownOrAll(call.enabledToolsets),
                                              call.readOnlyMode)
    /\ call.op = "GetRequiredScopes"
          => \A order \in ListOrders(toolsets, KnownOrAll(call.enabledToolsets)) :
             \A scopeOrder \in MapOrders(Range(call.result)) :
                call.result = GetRequiredScopes(toolsets, order, scopeOrder,
                                                KnownOrAll(call.enabledToolsets),
                                                call.readOnlyMode)

\* an unknown name came first, and the registered name after it gave tools
C8_Witness ==
    /\ call.op = "GetEnabledTools"
    /\ Len(call.enabledToolsets) = 2
    /\ call.enabledToolsets[1] \notin DOMAIN toolsets \cup {ToolsetAll}
    /\ call.enabledToolsets[2] \in DOMAIN toolsets
    /\ call.result # <<>>

\* C9: GetMetadata returns one entry per registered toolset, in strictly
\* ascending order of registry key, with the toolset's description, its
\* number of tools and its number of read-only tools.
C9_MetadataPerToolset ==
    call.op = "GetMetadata"
       => /\ Len(call.result) = Cardinality(DOMAIN toolsets)
          /\ StrictlyAscending([i \in 1..Len(call.result) |-> call.result[i].Name])
          /\ \A i \in 1..Len(call.result) :
                LET e == call.result[i]
                IN  /\ e.Name \in DOMAIN toolsets
                    /\ e.Description = toolsets[e.Name].Description
                    /\ e.ToolCount = Len(toolsets[e.Name].Tools)
                    /\ e.ReadOnlyCount =
                          Cardinality({j \in 1..Len(toolsets[e.Name].Tools) :
                                         toolsets[e.Name].Tools[j].Tool.ReadOnlyHint = "true"})
                    /\ e.ReadOnlyCount = Len(GetReadOnlyTools(toolsets[e.Name]))
                    /\ e.ReadOnlyCount <= e.ToolCount

\* two toolsets are described, one of them with a read-only and a mutating tool
C9_Witness ==
    /\ call.op = "GetMetadata"
    /\ Len(call.result) >= 2
    /\ \E i \in 1..Len(call.result) :
          call.result[i].ReadOnlyCount = 1 /\ call.result[i].ToolCount = 2

\* C10: the registry does not depend on the order in which the entries of a
\* mapping are registered (after a registration, registering the registry's
\* entries afresh in any order gives the same registry), and no query result
\* depends on the order in which the registry's map or the scope map is
\* visited: List, GetEnabledTools, GetRequiredScopes, GetMetadata and
\* SearchToolsWithMetadata are functions of the registered mapping and their
\* arguments alone.
C10_RegistrationCommutes ==
    /\ call.op \in {"Register", "RegisterToolsets"}
          => \A order \in MapOrders(DOMAIN toolsets) :
                RegisterToolsets(NewToolsetRegistry, toolsets, order) = toolsets
    /\ call.op = "RegisterToolsets"
          => \A order \in MapOrders(DOMAIN call.toolsets) :
                /\ RegisterToolsets(NewToolsetRegistry, call.toolsets, order) = call.toolsets
                /\ \A k \in DOMAIN call.toolsets : toolsets[k] = call.toolsets[k]
    /\ call.op = "List"
          => \A order \in MapOrders(DOMAIN toolsets) : call.result = List(toolsets, order)
    /\ call.op = "GetEnabledTools"
          => \A order \in ListOrders(toolsets, call.enabledToolsets) :
                call.result = GetEnabledTools(toolsets, order, call.enabledToolsets,
                                              call.readOnlyMode)
    /\ call.op = "GetRequiredScopes"
          => \A order \in ListOrders(toolsets, call.enabledToolsets) :
             \A scopeOrder \in MapOrders(Range(call.result)) :
                call.result = GetRequiredScopes(toolsets, order, scopeOrder,
                                                call.enabledToolsets, call.readOnlyMode)
    /\ call.op = "GetMetadata"
          => \A order \in MapOrders(DOMAIN toolsets) :
                call.result = GetMetadata(toolsets, order)
    /\ call.op = "SearchToolsWithMetadata"
          => \A order \in MapOrders(DOMAIN toolsets) :
                call.result = SearchToolsWithMetadata(toolsets, order, call.query, call.limit)

\* a search found tools of two toolsets
C10_Witness ==
    /\ call.op = "SearchToolsWithMetadata"
    /\ Cardinality(DOMAIN toolsets) = 2
    /\ Len(call.result) = 2
    /\ call.result[1].ToolsetName # call.result[2].ToolsetName

\* C11: Register(name, toolset) stores the toolset under name (inserting it
\* or replacing what was there) and leaves the entry under every other name
\* as it was; no other step takes a registered toolset away from what the
\* latest registration stored; and a Get of a name returns the toolset now
\* stored under it, so the query after a Register sees the new toolset.
C11_RegisterLastWriteWins ==
    [][/\ call'.op = "Register"
          => /\ DOMAIN toolsets' = DOMAIN toolsets \cup {call'.name}
             /\ toolsets'[call'.name] = call'.toolset
             /\ \A k \in DOMAIN toolsets \ {call'.name} : toolsets'[k] = toolsets[k]
       /\ call'.op \notin {"Register", "RegisterToolsets", "BuildkiteTools", "Run"}
          => toolsets' = toolsets
       /\ call'.op = "Get"
          => call'.result = IF call'.name \in DOMAIN toolsets'
                            THEN [toolset |-> toolsets'[call'.name], exists |-> TRUE]
                            ELSE [toolset |-> ZeroToolset, exists |-> FALSE]]_vars

\* a Register replaced a toolset of one tool by a different toolset, while
\* another name stays registered
C11_Witness ==
    /\ call.op = "Register"
    /\ call.previous.exists
    /\ call.previous.toolset.Tools # <<>>
    /\ call.previous.toolset # call.toolset
    /\ toolsets[call.name] = call.toolset
    /\ Cardinality(DOMAIN toolsets) = 2

BuiltinRegistry ==
    [k \in DOMAIN CreateBuiltinToolsets |-> CreateBuiltinToolsets[k]]

\* the configured names that are neither "all" nor a builtin toolset name
NotValid(names) ==
    SelectSeq(names, LAMBDA n : n # ToolsetAll /\ n \notin DOMAIN CreateBuiltinToolsets)

C14_NoResultsMessage ==
    call.op = "search_tools"
       => LET matching == MatchesInScanOrder(call.query)
              text == call.result.Text
          IN  /\ ~call.result.IsError
              /\ matching = <<>>
                    => /\ text.kind = "object"
                       /\ DOMAIN text.fields = {"results", "message"}
                       /\ text.fields.results = JsonArray(<<>>)
                       /\ SubSeq(text.fields.message, 1, 15) = <<78, 111, 32, 116, 111, 111, 108, 115, 32, 102, 111, 117, 110, 100, 46>>
                       /\ Contains(text.fields.message, <<39, 98, 117, 105, 108, 100, 39>>)
                       /\ Contains(text.fields.message, <<39, 99, 108, 117, 115, 116, 101, 114, 39>>)
              /\ matching # <<>>
                    => /\ text.kind = "array"
                       /\ Len(text.items) =
                             (IF Len(matching) < SearchLimit THEN Len(matching) ELSE SearchLimit)
                       /\ \A i \in 1..Len(text.items) :
                             \E j \in 1..Len(matching) :
                                /\ text.items[i].fields.name = matching[j].Def.Tool.Name
                                /\ text.items[i].fields.toolset = matching[j].ToolsetName

\* a query matched none of the registered tools
C14_Witness ==
    /\ call.op = "search_tools"
    /\ call.query = <<122>>
    /\ \E k \in DOMAIN toolsets : toolsets[k].Tools # <<>>
    /\ call.result.Text = NoToolsFound

\* C15: search_tools returns at most 10 matches, and each match is an object
\* of exactly name, description, toolset, read_only, matched_in and
\* required_scopes, taken from a registered tool of that toolset; its
\* required_scopes is always an array, empty for a tool without scopes.
C15_MatchFieldsPresent ==
    (call.op = "search_tools" /\ call.result.Text.kind = "array")
       => /\ Len(call.result.Text.items) <= 10
          /\ \A i \in 1..Len(call.result.Text.items) :
                LET item == call.result.Text.items[i]
                IN  /\ item.kind = "object"
                    /\ DOMAIN item.fields = {"name", "description", "toolset", "read_only",
                                             "matched_in", "required_scopes"}
                    /\ item.fields.required_scopes.kind = "array"
                    /\ item.fields.matched_in \in {"name", "description", "both"}
                    /\ item.fields.toolset \in DOMAIN toolsets
                    /\ \E j \in 1..Len(toolsets[item.fields.toolset].Tools) :
                          LET td == toolsets[item.fields.toolset].Tools[j]
                          IN  /\ item.fields.name = td.Tool.Name
                              /\ item.fields.description = td.Tool.Description
                              /\ item.fields.read_only = (td.Tool.ReadOnlyHint = "true")
                              /\ item.fields.required_scopes.items = td.RequiredScopes

\* more than ten tools matched, ten were returned, and one of them has nil
\* scopes and is reported with an empty list
C15_Witness ==
    /\ call.op = "search_tools"
    /\ Len(MatchesInScanOrder(call.query)) > 10
    /\ call.result.Text.kind = "array"
    /\ Len(call.result.Text.items) = 10
    /\ \E i \in 1..10 :
          LET item == call.result.Text.items[i]
          IN  /\ item.fields.required_scopes = JsonArray(<<>>)
              /\ \E j \in 1..Len(toolsets[item.fields.toolset].Tools) :
                    /\ toolsets[item.fields.toolset].Tools[j].Tool.Name = item.fields.name
                    /\ toolsets[item.fields.toolset].Tools[j].RequiredScopesNil

\* the names of the Discovery Tools
DiscoveryNames == {ListToolsetsTool.Name, SearchTool.Name}

\* the names of the tools of a tool list
ExposedNames(tools) == {tools[i].Name : i \in 1..Len(tools)}

\* C16: when dynamic loading is enabled, the tool list of BuildkiteTools
\* holds both list_toolsets and search_tools.
C16_BothDiscoveryToolsExposed ==
    (call.op = "BuildkiteTools" /\ call.dynamicToolsets)
       => DiscoveryNames \subseteq ExposedNames(call.result)

\* C17 as stated: when dynamic loading is enabled, every exposed tool other
\* than the Discovery Tools has DeferLoading true.
C17_AllDeferred ==
    (call.op = "BuildkiteTools" /\ call.dynamicToolsets)
       => \A i \in 1..Len(call.result) :
             call.result[i].Name \notin DiscoveryNames => call.result[i].DeferLoading

\* C17 as amended: the exposed tools other than search_tools are the enabled
\* tools, in order, and each carries the DeferLoading flag of its definition
\* when dynamic loading is enabled, and false when it is not.
C17_DeferFlagCopied ==
    call.op = "BuildkiteTools"
       => \A order \in ListOrders(toolsets, call.enabledToolsets) :
             LET enabledTools == GetEnabledTools(toolsets, order, call.enabledToolsets,
                                                 call.readOnly)
                 offset == IF call.dynamicToolsets THEN 1 ELSE 0
             IN  /\ Len(call.result) = offset + Len(enabledTools)
                 /\ call.dynamicToolsets => call.result[1] = SearchTool
                 /\ \A i \in 1..Len(enabledTools) :
                       /\ call.result[offset + i].Name = enabledTools[i].Tool.Name
                       /\ call.result[offset + i].DeferLoading =
                             (call.dynamicToolsets /\ enabledTools[i].DeferLoading)

\* with dynamic loading enabled, a tool made by NewDeferredTool is exposed
\* deferred and a tool made by NewTool is exposed not deferred
C17_Witness ==
    /\ call.op = "BuildkiteTools"
    /\ call.dynamicToolsets
    /\ \E i, j \in 2..Len(call.result) :
          /\ call.result[i].DeferLoading
          /\ ~call.result[j].DeferLoading
          /\ \E k \in DOMAIN toolsets : \E n \in 1..Len(toolsets[k].Tools) :
                /\ toolsets[k].Tools[n].Tool.Name = call.result[j].Name
                /\ ~toolsets[k].Tools[n].DeferLoading

\* C18: in read-only mode every tool of the tool list of BuildkiteTools has
\* a ReadOnlyHint that is present and true, whatever toolsets are enabled and
\* whether dynamic loading is on or off.
C18_ExposedReadOnly ==
    (call.op = "BuildkiteTools" /\ call.readOnly)
       => \A i \in 1..Len(call.result) : call.result[i].ReadOnlyHint = "true"

\* C19: Auth calls the next handler exactly when the request has an
\* Authorization header whose value is "Bearer " followed by the configured
\* token and nothing else; then the request is handed on as it came.
\* Otherwise the response is 401 with the body "Unauthorized" and a newline.
C19_AuthExactBearerToken ==
    call.op = "Auth"
       => LET accepted == /\ call.request.hasAuthorization
                          /\ call.request.authorization = BearerPrefix \o call.token
          IN  /\ call.result.nextCalled <=> accepted
              /\ accepted => call.result.forwarded = call.request
              /\ ~accepted
                    => /\ call.result.status = 401
                       /\ call.result.body = <<85, 110, 97, 117, 116, 104, 111, 114, 105, 122, 101, 100, 10>>

\* a request was refused whose token is the configured token without its
\* last byte
C19_Witness ==
    /\ call.op = "Auth"
    /\ call.token = <<115, 107>>
    /\ call.request.hasAuthorization
    /\ call.request.authorization = BearerPrefix \o <<115>>
    /\ ~call.result.nextCalled
    /\ call.result.status = 401

\* the middlewares a sequence of Use and UseIf calls adds: those of Use and
\* of UseIf with a true condition, in the order of the calls
Added(uses) ==
    LET kept == SelectSeq(uses, LAMBDA u : u.method = "Use" \/ u.condition)
    IN  [i \in 1..Len(kept) |-> kept[i].middleware]

\* the number of middlewares entered: up to the first one that does not call
\* next, or all of them
Entered(added) ==
    IF \A i \in 1..Len(added) : added[i].callsNext THEN Len(added)
    ELSE CHOOSE i \in 1..Len(added) :
            /\ ~added[i].callsNext
            /\ \A j \in 1..(i - 1) : added[j].callsNext

\* C20: the handler returned by Then enters the added middlewares in the
\* order they were added, up to the first that does not call next; runs the
\* final handler if and only if all of them call next; and leaves the
\* entered middlewares in reverse order.  Nothing else runs: a middleware
\* given to UseIf with a false condition is not among them, and with no
\* middleware added only the final handler runs.
C20_ChainOrder ==
    call.op = "Then"
       => LET added == Added(call.uses)
              n == Entered(added)
              handlerRuns == \A i \in 1..Len(added) : added[i].callsNext
          IN  call.result =
                 [i \in 1..n |-> [event |-> "before", id |-> added[i].id]]
                 \o (IF handlerRuns THEN << [event |-> "handler", id |-> 0] >> ELSE <<>>)
                 \o [i \in 1..n |-> [event |-> "after", id |-> added[n + 1 - i].id]]

\* a chain of Use, UseIf(false) and UseIf(true) ran two different
\* middlewares around the final handler
C20_Witness ==
    /\ call.op = "Then"
    /\ Len(call.uses) = 3
    /\ call.uses[1].method = "Use"
    /\ call.uses[2].method = "UseIf" /\ ~call.uses[2].condition
    /\ call.uses[3].method = "UseIf" /\ call.uses[3].condition
    /\ call.uses[1].middleware.id # call.uses[3].middleware.id
    /\ Len(call.result) = 5
    /\ call.result[3].event = "handler"

----------------------------------------------------------------------------
(* C21 *)

\* the text of s before its first comma
BeforeFirstComma(s) ==
    CHOOSE p \in {SubSeq(s, 1, n) : n \in 0..Len(s)} :
       /\ \A i \in 1..Len(p) : p[i] # 44
       /\ Len(p) = Len(s) \/ s[Len(p) + 1] = 44

\* s without the white space around it
Stripped(s) ==
    CHOOSE core \in {SubSeq(s, i, j) : i \in 1..(Len(s) + 1), j \in 0..Len(s)} :
       /\ core = <<>> \/ (~IsSpace(core[1]) /\ ~IsSpace(core[Len(core)]))
       /\ \E i \in 1..(Len(s) + 1), j \in 0..Len(s) :
             /\ core = SubSeq(s, i, j)
             /\ \A k \in 1..(i - 1) : IsSpace(s[k])
             /\ \A k \in (j + 1)..Len(s) : IsSpace(s[k])

\* what the i-th proxy header yields: its value, and for X-Forwarded-For the
\* first entry of the value, stripped
Yield(r, i) ==
    LET value == IF ProxyHeaders[i] \in DOMAIN r.Header
                 THEN r.Header[ProxyHeaders[i]] ELSE <<>>
    IN  IF i = 4 THEN Stripped(BeforeFirstComma(value)) ELSE value

----------------------------------------------------------------------------
(* C22 *)

\* C22: with trustProxy false the client IP in the request context is
\* r.RemoteAddr, and so is the same for every request with that RemoteAddr,
\* whatever proxy headers it carries.
C22_HeadersIgnoredWithoutTrust ==
    (call.op = "ClientIP" /\ ~call.trustProxy) =>
        /\ call.result.nextCalled
        /\ call.result.client_ip = call.request.RemoteAddr
        /\ \A other \in ClientIPRequests :
              other.RemoteAddr = call.request.RemoteAddr
                 => ClientIP(FALSE, other).client_ip = call.result.client_ip

\* a request whose CF-Connecting-IP names another address is served
\* without trust in the proxy
C22_Witness ==
    /\ call.op = "ClientIP"
    /\ ~call.trustProxy
    /\ "CF-Connecting-IP" \in DOMAIN call.request.Header
    /\ call.request.Header["CF-Connecting-IP"] = <<99, 44, 100>>
    /\ call.result.client_ip = <<57>>

----------------------------------------------------------------------------
(* C23 *)

\* the status a sequence of handler calls is answered with
FirstStatus(calls) ==
    IF calls # <<>> /\ calls[1].method = "WriteHeader" THEN calls[1].code ELSE 200

\* the WriteHeader calls among the calls a writer received
HeaderCalls(received) == SelectSeq(received, LAMBDA c : c.method = "WriteHeader")

\* the recorded status is that of the first call, the underlying writer has
\* had one WriteHeader with it (none before the first call), and the log
\* holds it once, and only after the handler has returned
StatusRecorded ==
    call.op = "RequestLog" =>
        /\ call.wrapped.statusCode = FirstStatus(call.calls)
        /\ HeaderCalls(call.wrapped.ResponseWriter)
              = IF call.calls = <<>> THEN <<>>
                ELSE << [method |-> "WriteHeader", code |-> FirstStatus(call.calls)] >>
        /\ call.log = IF call.returned
                      THEN << [status |-> FirstStatus(call.calls)] >>
                      ELSE <<>>

\* once something was written, a further call of the handler leaves the
\* recorded status and the WriteHeader calls of the underlying writer alone
StatusKept ==
    (call.op = "RequestLog" /\ call.calls # <<>> /\ call'.op = "RequestLog") =>
        /\ call'.wrapped.statusCode = call.wrapped.statusCode
        /\ HeaderCalls(call'.wrapped.ResponseWriter)
              = HeaderCalls(call.wrapped.ResponseWriter)

\* C23: for every sequence of WriteHeader and Write calls the recorded
\* status is the code of the first WriteHeader call, or 200 when Write came
\* first or nothing was written; later WriteHeader calls change neither the
\* recorded status nor reach the underlying writer, which gets at most one
\* WriteHeader; RequestLog logs the recorded status once, after the handler
\* has returned.
C23_FirstStatusLogged == []StatusRecorded /\ [][StatusKept]_vars

\* a handler sent 404, then 500, and the request was logged with 404
C23_Witness ==
    /\ call.op = "RequestLog"
    /\ Len(call.calls) >= 2
    /\ call.calls[1] = [method |-> "WriteHeader", code |-> 404]
    /\ call.calls[2] = [method |-> "WriteHeader", code |-> 500]
    /\ call.returned
    /\ call.log = << [status |-> 404] >>

----------------------------------------------------------------------------
(* C24 *)

\* the status of the Buildkite error response in err, 0 when err holds no
\* error response or the error response has no response
ResponseStatus(err) ==
    IF err.ErrorResponse.isNil \/ err.ErrorResponse.Response.isNil THEN 0
    ELSE err.ErrorResponse.Response.StatusCode

\* the raw body of an error response if it has one, else its message
BodyOrMessage(errResp) ==
    IF errResp.RawBody.isNil THEN errResp.Message ELSE errResp.RawBody.bytes

\* C24: handleAPIError returns nil for a nil error and an error result
\* otherwise; for a Buildkite error response with status 401 the text is the
\* "Authentication failed" message, with status 403 it is "Permission
\* denied" followed by the raw body if present, else the message, for any
\* other Buildkite error response it is the raw body if present, else the
\* message if that is not empty; in every other case it is err.Error().
C24_ErrorMessagePrecedence ==
    call.op = "handleAPIError" =>
        LET err == call.err
            result == call.result
        IN  /\ result.isNil <=> err.isNil
            /\ ~err.isNil =>
                  /\ result.IsError
                  /\ result.Text =
                        CASE ResponseStatus(err) = 401 -> AuthenticationFailed
                          [] ResponseStatus(err) = 403 ->
                                PermissionDenied \o BodyOrMessage(err.ErrorResponse)
                          [] /\ ResponseStatus(err) \notin {401, 403}
                             /\ ~err.ErrorResponse.isNil
                             /\ ~err.ErrorResponse.RawBody.isNil ->
                                err.ErrorResponse.RawBody.bytes
                          [] /\ ResponseStatus(err) \notin {401, 403}
                             /\ ~err.ErrorResponse.isNil
                             /\ err.ErrorResponse.RawBody.isNil
                             /\ err.ErrorResponse.Message # <<>> ->
                                err.ErrorResponse.Message
                          [] OTHER -> err.Error

\* a 403 response with a raw body and a message is answered with
\* "Permission denied" and the raw body
C24_Witness ==
    /\ call.op = "handleAPIError"
    /\ ~call.err.isNil
    /\ ResponseStatus(call.err) = 403
    /\ ~call.err.ErrorResponse.RawBody.isNil
    /\ call.err.ErrorResponse.RawBody.bytes = <<114>>
    /\ call.err.ErrorResponse.Message = <<109>>
    /\ call.result.Text = PermissionDenied \o <<114>>

----------------------------------------------------------------------------
(* C25 *)

\* the definitions CreateBuiltinToolsets makes
BuiltinDefinitions ==
    UNION { Range(CreateBuiltinToolsets[k].Tools) : k \in DOMAIN CreateBuiltinToolsets }

\* C25: every tool that BuildkiteTools exposes from the enabled toolsets has
\* DeferLoading equal to (dynamic loading enabled and the DeferLoading of its
\* definition); with dynamic loading disabled no exposed tool is deferred
\* and no discovery tool is exposed; the definitions stored in the registry
\* are left as CreateBuiltinToolsets made them.
C25_DeferOnlyWhenDynamic ==
    call.op = "BuildkiteTools" =>
        /\ \A i \in 1..Len(call.result) :
              call.result[i].Name \notin DiscoveryNames =>
                 \E toolDef \in BuiltinDefinitions :
                    /\ toolDef.Tool.Name = call.result[i].Name
                    /\ call.result[i].DeferLoading
                          <=> (call.dynamicToolsets /\ toolDef.DeferLoading)
        /\ ~call.dynamicToolsets =>
              /\ \A i \in 1..Len(call.result) : ~call.result[i].DeferLoading
              /\ ExposedNames(call.result) \cap DiscoveryNames = {}
        /\ \A k \in DOMAIN toolsets : \A n \in 1..Len(toolsets[k].Tools) :
              toolsets[k].Tools[n] \in BuiltinDefinitions
        /\ UNION { Range(toolsets[k].Tools) : k \in DOMAIN toolsets } = BuiltinDefinitions

\* with dynamic loading disabled, a tool made by NewDeferredTool is exposed
\* not deferred, and its stored definition is still deferred
C25_Witness ==
    /\ call.op = "BuildkiteTools"
    /\ ~call.dynamicToolsets
    /\ \E i \in 1..Len(call.result) :
          /\ ~call.result[i].DeferLoading
          /\ \E k \in DOMAIN toolsets : \E n \in 1..Len(toolsets[k].Tools) :
                /\ toolsets[k].Tools[n].Tool.Name = call.result[i].Name
                /\ toolsets[k].Tools[n].DeferLoading

----------------------------------------------------------------------------
(* C26 *)

\* the names GetEnabledTools selects: the registered names in ascending
\* order when "all" is among the names given, else the names given
SelectedNames(names) ==
    IF \E i \in 1..Len(names) : names[i] = ToolsetAll
    THEN CHOOSE keys \in Perms(DOMAIN toolsets) :
            \A i \in 1..(Len(keys) - 1) : Compare(keys[i], keys[i + 1]) < 0
    ELSE names

\* what a name adds: the tools of its toolset in stored order, only the
\* read-only ones if readOnly; nothing if no toolset has the name
Share(name, readOnly) ==
    IF name \notin DOMAIN toolsets THEN <<>>
    ELSE IF readOnly
         THEN SelectSeq(toolsets[name].Tools, LAMBDA t : t.Tool.ReadOnlyHint = "true")
         ELSE toolsets[name].Tools

\* the number of tools the first n names add
RECURSIVE SharesBefore(_, _, _)
SharesBefore(names, n, readOnly) ==
    IF n = 0 THEN 0
    ELSE SharesBefore(names, n - 1, readOnly) + Len(Share(names[n], readOnly))

\* C26: GetEnabledTools returns the tool lists of the selected toolsets one
\* after the other, read-only tools only if readOnly, in the order of the
\* names given, or in ascending order of toolset name when "all" was
\* expanded, each list in its stored order; a name given twice adds its
\* tools twice.
C26_EnabledToolsConcatenated ==
    call.op = "GetEnabledTools" =>
        LET names == SelectedNames(call.enabledToolsets)
            readOnly == call.readOnlyMode
        IN  /\ Len(call.result) = SharesBefore(names, Len(names), readOnly)
            /\ \A i \in 1..Len(names) : \A j \in 1..Len(Share(names[i], readOnly)) :
                  call.result[SharesBefore(names, i - 1, readOnly) + j]
                     = Share(names[i], readOnly)[j]

\* a registered name was given twice and its tools came back twice
C26_Witness ==
    /\ call.op = "GetEnabledTools"
    /\ Len(call.enabledToolsets) = 2
    /\ call.enabledToolsets[1] = call.enabledToolsets[2]
    /\ call.enabledToolsets[1] \in DOMAIN toolsets
    /\ ~call.readOnlyMode
    /\ toolsets[call.enabledToolsets[1]].Tools # <<>>
    /\ call.result = toolsets[call.enabledToolsets[1]].Tools
                     \o toolsets[call.enabledToolsets[1]].Tools

----------------------------------------------------------------------------
(* C27 *)

\* the places of the registered tools: toolset key and index
RegisteredTools ==
    UNION { {<<k, n>> : n \in 1..Len(toolsets[k].Tools)} : k \in DOMAIN toolsets }

\* C27: the empty query matches every registered tool: for a limit above 0,
\* SearchToolsWithMetadata("", limit) returns as many results as there are
\* registered tools, or limit if that is less, each with matchedIn "both".
C27_EmptyQueryMatchesAll ==
    (call.op = "SearchToolsWithMetadata" /\ call.query = <<>> /\ call.limit > 0) =>
        LET total == Cardinality(RegisteredTools)
        IN  /\ Len(call.result) = IF call.limit < total THEN call.limit ELSE total
            /\ \A i \in 1..Len(call.result) : call.result[i].MatchedIn = "both"

\* the empty query returned every tool of a registry with two tools under a
\* limit of three
C27_Witness ==
    /\ call.op = "SearchToolsWithMetadata"
    /\ call.query = <<>>
    /\ call.limit = 3
    /\ Cardinality(RegisteredTools) = 2
    /\ Len(call.result) = 2
    /\ call.result[1].MatchedIn = "both"

----------------------------------------------------------------------------
(* C28 *)

\* C28: what SearchToolsWithMetadata finds, and so what search_tools
\* answers, is fixed by the registry, the query and the limit: it is what
\* the whole registry gives, whatever toolsets the server has enabled and
\* whether or not it is read-only.
C28_SearchIgnoresConfiguration ==
    call.op = "served search_tools" =>
        \A order \in MapOrders(DOMAIN toolsets) :
           /\ call.found = SearchToolsWithMetadata(toolsets, order, call.query, 10)
           /\ call.result = ToolSearchHandler(toolsets, order, call.query)

\* on a read-only server with one toolset enabled, the search found a
\* mutating tool of another toolset, which is not in the exposed tool list
C28_Witness ==
    /\ call.op = "served search_tools"
    /\ call.readOnly
    /\ Len(call.enabledToolsets) = 1
    /\ call.enabledToolsets[1] \in DOMAIN toolsets
    /\ call.exposed # <<>>
    /\ \E i \in 1..Len(call.found) :
          /\ call.found[i].ToolsetName # call.enabledToolsets[1]
          /\ ~call.found[i].ReadOnly
          /\ call.found[i].Tool.Name \notin ExposedNames(call.exposed)

----------------------------------------------------------------------------
(* C29 *)

\* C29 as stated: for a limit of 0 or less SearchToolsWithMetadata returns
\* exactly one result when at least one registered tool matches the query,
\* and no result otherwise.
C29_OneResultIfAnyMatch ==
    (call.op = "SearchToolsWithMetadata" /\ call.limit <= 0) =>
        Len(call.result) = IF MatchesInScanOrder(call.query) # <<>> THEN 1 ELSE 0

\* the matching tools of the toolset whose key is least, in stored order;
\* none in an empty registry
MatchesInFirstToolset(query) ==
    IF DOMAIN toolsets = {} THEN <<>>
    ELSE LET first == CHOOSE k \in DOMAIN toolsets :
                         \A j \in DOMAIN toolsets : Compare(k, j) <= 0
         IN  SelectSeq([i \in 1..Len(toolsets[first].Tools) |->
                           [ToolsetName |-> first, Def |-> toolsets[first].Tools[i]]],
                       LAMBDA e : \/ Matches(e.Def.Tool.Name, query)
                                  \/ Matches(e.Def.Tool.Description, query))

\* C29 as amended: a limit of 0 or less is not rejected; the scan then ends
\* at the first match and in any case after the first toolset in ascending
\* key order, so the result is the first matching tool of that toolset, and
\* is empty when that toolset has no matching tool, whatever the other
\* toolsets hold; a result of one exceeds the limit.
C29_FirstToolsetFirstMatch ==
    (call.op = "SearchToolsWithMetadata" /\ call.limit <= 0) =>
        LET matching == MatchesInFirstToolset(call.query)
        IN  IF matching = <<>> THEN call.result = <<>>
            ELSE /\ Len(call.result) = 1
                 /\ Len(call.result) > call.limit
                 /\ call.result[1].ToolsetName = matching[1].ToolsetName
                 /\ call.result[1].Tool = matching[1].Def.Tool

\* under a limit of 0 the first toolset held two matching tools and the
\* first of them was returned alone
C29_Witness ==
    /\ call.op = "SearchToolsWithMetadata"
    /\ call.limit = 0
    /\ Len(MatchesInFirstToolset(call.query)) = 2
    /\ Len(call.result) = 1
    /\ call.result[1].Tool = MatchesInFirstToolset(call.query)[1].Def.Tool

\* under a limit of 0 or less nothing was returned although a tool of the
\* second toolset matches
C29_LaterMatchMissed ==
    /\ call.op = "SearchToolsWithMetadata"
    /\ call.limit <= 0
    /\ call.result = <<>>
    /\ MatchesInScanOrder(call.query) # <<>>

----------------------------------------------------------------------------
(* C30 *)

\* C30: the names that startup validation accepts, without "all", are the
\* keys of CreateBuiltinToolsets, and "all" is not one of the keys; so once
\* validation has passed, every enabled name is "all" or the key of a
\* registered toolset, and the tool list is built from all the names given.
C30_ValidNamesAreBuiltinKeys ==
    /\ Range(ValidToolsetNames) \ {ToolsetAll} = BuiltinToolsetKeys
    /\ ToolsetAll \notin BuiltinToolsetKeys
    /\ Range(ValidToolsets) \ {ToolsetAll} = DOMAIN CreateBuiltinToolsets
    /\ ToolsetAll \notin DOMAIN CreateBuiltinToolsets
    /\ (call.op = "Run" /\ call.result.built) =>
          LET names == call.enabledToolsets
          IN  /\ \A i \in 1..Len(names) :
                    names[i] = ToolsetAll \/ Get(toolsets, names[i]).exists
              /\ Len(call.result.tools)
                    = SharesBefore(SelectedNames(names), Len(SelectedNames(names)),
                                   call.readOnly)

\* a command was started with the two builtin names and its tool list holds
\* the tools of both toolsets
C30_Witness ==
    /\ call.op = "Run"
    /\ call.result.built
    /\ ~call.readOnly
    /\ Len(call.enabledToolsets) = 2
    /\ call.enabledToolsets[1] # call.enabledToolsets[2]
    /\ \A i \in 1..2 : call.enabledToolsets[i] \in DOMAIN toolsets
    /\ Len(call.result.tools) = Len(toolsets[call.enabledToolsets[1]].Tools)
                                + Len(toolsets[call.enabledToolsets[2]].Tools)
    /\ Len(call.result.tools) > 0

====
